---- MODULE Spec2Model ----
(***************************************************************************)
(* Disease-aware nutrition advisor of the healthAI repository              *)
(* (src/app/tools/health_advisor.py, health_advisor_simple.py,             *)
(* db_query_tool.py, src/app/utils/database_helpers.py).                   *)
(*                                                                         *)
(* Text is modelled as a sequence of characters.  A character is a short   *)
(* ASCII string in VIQR notation, because the module text is ASCII only:   *)
(*   a^ a( e^ o^ o+ u+ dd   are  â ă ê ô ơ ư đ,                            *)
(*   a trailing ' - ? ~ .   is the tone mark (sắc, huyền, hỏi, ngã, nặng), *)
(* so "e^?" is the one character ể and "DD" is Đ.                          *)
(* JSON object keys are transliterated to ASCII field names; the mapping   *)
(* is given where each result is built.                                    *)
(*                                                                         *)
(* Python's None is the empty tuple, a present value x is <<x>>; a dict is *)
(* a function whose DOMAIN is the set of keys present.                     *)
(***************************************************************************)
EXTENDS Integers, Sequences, FiniteSets, TLC

VARIABLES op, disease_arg, food_name_arg, portion_arg, nutrition_arg, db, result,
          calls, disease_map, sessions, request

vars == <<op, disease_arg, food_name_arg, portion_arg, nutrition_arg, db, result,
          calls, disease_map, sessions, request>>

-----------------------------------------------------------------------------
(* Python values *)

None == <<>>
Some(x) == <<x>>

\* dict.get(key, default)
Get(d, key, default) == IF key \in DOMAIN d THEN d[key] ELSE default

\* "v or 0" for a number or None
OrZero(v) == IF v = None \/ v = Some(0) THEN 0 ELSE v[1]

EmptyDict == [k \in {} |-> None]

Max(a, b) == IF a >= b THEN a ELSE b
Min(a, b) == IF a <= b THEN a ELSE b

-----------------------------------------------------------------------------
(* str.lower(), str.strip(), the "in" operator on strings *)

CasePairs ==
  << <<"A", "a">>, <<"B", "b">>, <<"C", "c">>, <<"D", "d">>, <<"E", "e">>,
     <<"G", "g">>, <<"H", "h">>, <<"I", "i">>, <<"K", "k">>, <<"L", "l">>,
     <<"M", "m">>, <<"N", "n">>, <<"O", "o">>, <<"P", "p">>, <<"R", "r">>,
     <<"S", "s">>, <<"T", "t">>, <<"U", "u">>, <<"X", "x">>, <<"Y", "y">>,
     <<"A-", "a-">>, <<"A'", "a'">>, <<"A^", "a^">>, <<"E-", "e-">>,
     <<"E'", "e'">>, <<"I-", "i-">>, <<"O-", "o-">>, <<"O'", "o'">>,
     <<"O^", "o^">>, <<"U'", "u'">>, <<"A(", "a(">>, <<"DD", "dd">>,
     <<"O+", "o+">>, <<"U+", "u+">>, <<"A.", "a.">>, <<"A^'", "a^'">>,
     <<"A^-", "a^-">>, <<"A('", "a('">>, <<"E^'", "e^'">>, <<"E^?", "e^?">>,
     <<"E^.", "e^.">>, <<"O?", "o?">>, <<"O^'", "o^'">>, <<"O^-", "o^-">>,
     <<"O+-", "o+-">>, <<"O+?", "o+?">>, <<"U+-", "u+-">> >>

LowerMap ==
  [c \in {CasePairs[i][1] : i \in 1..Len(CasePairs)} |->
     CasePairs[CHOOSE i \in 1..Len(CasePairs) : CasePairs[i][1] = c][2]]

UpperMap ==
  [c \in {CasePairs[i][2] : i \in 1..Len(CasePairs)} |->
     CasePairs[CHOOSE i \in 1..Len(CasePairs) : CasePairs[i][2] = c][1]]

LowerChar(c) == IF c \in DOMAIN LowerMap THEN LowerMap[c] ELSE c
UpperChar(c) == IF c \in DOMAIN UpperMap THEN UpperMap[c] ELSE c

Lower(s) == [i \in 1..Len(s) |-> LowerChar(s[i])]
Upper(s) == [i \in 1..Len(s) |-> UpperChar(s[i])]

Whitespace == {" ", "\t", "\n"}

RECURSIVE LStrip(_)
LStrip(s) == IF s /= <<>> /\ Head(s) \in Whitespace THEN LStrip(Tail(s)) ELSE s

RECURSIVE RStrip(_)
RStrip(s) ==
  IF s /= <<>> /\ s[Len(s)] \in Whitespace
  THEN RStrip(SubSeq(s, 1, Len(s) - 1))
  ELSE s

Strip(s) == RStrip(LStrip(s))

\* "a in b" for strings: a occurs in b as a contiguous run of characters
IsSubstr(a, b) ==
  \E i \in 0..(Len(b) - Len(a)) : SubSeq(b, i + 1, i + Len(a)) = a

-----------------------------------------------------------------------------
(* The canonical categories and the synonym table *)

TieuDuong == <<"T", "i", "e^?", "u", " ", "dd", "u+", "o+-", "n", "g">>
BeoPhi == <<"B", "e'", "o", " ", "p", "h", "i-">>
HuyetApCao == <<"H", "u", "y", "e^'", "t", " ", "a'", "p", " ", "c", "a", "o">>

\* the ordered (key, value) pairs of the dict
DISEASE_MAP ==
  << <<Lower(TieuDuong), TieuDuong>>,
     << <<"dd", "a'", "i", " ", "t", "h", "a'", "o", " ", "dd", "u+", "o+-", "n", "g">>, TieuDuong>>,
     << <<"dd", "u+", "o+-", "n", "g", " ", "h", "u", "y", "e^'", "t", " ", "c", "a", "o">>, TieuDuong>>,
     << <<"d", "i", "a", "b", "e", "t", "e", "s">>, TieuDuong>>,
     << <<"b", "e'", "o">>, BeoPhi>>,
     << Lower(BeoPhi), BeoPhi>>,
     << <<"t", "h", "u+-", "a", " ", "c", "a^", "n">>, BeoPhi>>,
     << <<"o", "b", "e", "s", "i", "t", "y">>, BeoPhi>>,
     << <<"h", "u", "y", "e^'", "t", " ", "a'", "p">>, HuyetApCao>>,
     << <<"t", "a(", "n", "g", " ", "h", "u", "y", "e^'", "t", " ", "a'", "p">>, HuyetApCao>>,
     << <<"c", "a", "o", " ", "h", "u", "y", "e^'", "t", " ", "a'", "p">>, HuyetApCao>>,
     << Lower(HuyetApCao), HuyetApCao>>,
     << <<"h", "y", "p", "e", "r", "t", "e", "n", "s", "i", "o", "n">>, HuyetApCao>> >>

\* dict.get(key) on a dict given as ordered pairs: the value, or None
DictGet(pairs, key) ==
  IF \E i \in 1..Len(pairs) : pairs[i][1] = key
  THEN Some(pairs[CHOOSE i \in 1..Len(pairs) : pairs[i][1] = key][2])
  ELSE None

DictKeys(pairs) == {pairs[i][1] : i \in 1..Len(pairs)}

\* variant: a text that holds a key is taken for that key (the "fuzzy" match of
\* the food tables applied to diseases)
normalize_disease_name_partial(text) ==
  LET disease_lower == Lower(Strip(text))
  IN IF \E i \in 1..Len(DISEASE_MAP) : IsSubstr(DISEASE_MAP[i][1], disease_lower)
     THEN Some(DISEASE_MAP[CHOOSE i \in 1..Len(DISEASE_MAP) :
                             /\ IsSubstr(DISEASE_MAP[i][1], disease_lower)
                             /\ \A j \in 1..(i - 1) : ~IsSubstr(DISEASE_MAP[j][1], disease_lower)][2])
     ELSE None

\* variant: a text that is no key falls back to the first category
normalize_disease_name_default(text) ==
  LET found == DictGet(DISEASE_MAP, Lower(Strip(text)))
  IN IF found = None THEN Some(TieuDuong) ELSE found

\* HealthAdvisorTool._normalize_disease_name
normalize_disease_name(text) == DictGet(DISEASE_MAP, Lower(Strip(text)))

-----------------------------------------------------------------------------
(* The scorer *)

Rau == <<"r", "a", "u">>
TraiCay == <<"t", "r", "a'", "i", " ", "c", "a^", "y">>
Ca == <<"c", "a'">>
Pho == <<"p", "h", "o+?">>

\* variant: every bucket that holds adds its delta ("if" for "elif") and the
\* sum is returned as it is
calculate_safety_score_cumulative(n, d) ==
  LET calories == OrZero(Get(n, "calories", Some(0)))
      carbs == OrZero(Get(n, "carbs", Some(0)))
      fat == OrZero(Get(n, "fat", Some(0)))
      protein == OrZero(Get(n, "protein", Some(0)))
  IN IF d = TieuDuong THEN
       50 + (IF carbs <= 30 THEN 20 ELSE 0) + (IF carbs <= 50 THEN 10 ELSE -20)
          + (IF protein >= 15 THEN 15 ELSE 0)
          + (IF calories <= 400 THEN 15 ELSE 0)
     ELSE IF d = BeoPhi THEN
       50 + (IF calories <= 200 THEN 25 ELSE 0) + (IF calories <= 400 THEN 10 ELSE -25)
          + (IF fat <= 10 THEN 15 ELSE 0) + (IF fat <= 20 THEN 5 ELSE -15)
     ELSE IF d = HuyetApCao THEN
       50 + (IF calories <= 300 THEN 15 ELSE 0)
          + (IF protein >= 10 THEN 10 ELSE 0)
          + (IF Get(n, "category", None) \in {Some(Rau), Some(TraiCay), Some(Ca)}
             THEN 20 ELSE 0)
     ELSE 50

\* variant: the thresholds compared strictly ("<" for "<=", ">" for ">=")
calculate_safety_score_strict(n, d) ==
  LET calories == OrZero(Get(n, "calories", Some(0)))
      carbs == OrZero(Get(n, "carbs", Some(0)))
      fat == OrZero(Get(n, "fat", Some(0)))
      protein == OrZero(Get(n, "protein", Some(0)))
      score ==
        IF d = TieuDuong THEN
          50 + (IF carbs < 30 THEN 20 ELSE IF carbs < 50 THEN 10 ELSE -20)
             + (IF protein > 15 THEN 15 ELSE 0)
             + (IF calories < 400 THEN 15 ELSE 0)
        ELSE IF d = BeoPhi THEN
          50 + (IF calories < 200 THEN 25 ELSE IF calories < 400 THEN 10 ELSE -25)
             + (IF fat < 10 THEN 15 ELSE IF fat < 20 THEN 5 ELSE -15)
        ELSE IF d = HuyetApCao THEN
          50 + (IF calories < 300 THEN 15 ELSE 0)
             + (IF protein > 10 THEN 10 ELSE 0)
             + (IF Get(n, "category", None) \in {Some(Rau), Some(TraiCay), Some(Ca)}
                THEN 20 ELSE 0)
        ELSE 50
  IN Max(0, Min(100, score))

\* variant: for "Huyết áp cao" a sodium value above 600 mg costs 20 points
calculate_safety_score_sodium(n, d) ==
  LET calories == OrZero(Get(n, "calories", Some(0)))
      carbs == OrZero(Get(n, "carbs", Some(0)))
      fat == OrZero(Get(n, "fat", Some(0)))
      protein == OrZero(Get(n, "protein", Some(0)))
      sodium == OrZero(Get(n, "sodium", Some(0)))
      score ==
        IF d = TieuDuong THEN
          50 + (IF carbs <= 30 THEN 20 ELSE IF carbs <= 50 THEN 10 ELSE -20)
             + (IF protein >= 15 THEN 15 ELSE 0)
             + (IF calories <= 400 THEN 15 ELSE 0)
        ELSE IF d = BeoPhi THEN
          50 + (IF calories <= 200 THEN 25 ELSE IF calories <= 400 THEN 10 ELSE -25)
             + (IF fat <= 10 THEN 15 ELSE IF fat <= 20 THEN 5 ELSE -15)
        ELSE IF d = HuyetApCao THEN
          50 + (IF calories <= 300 THEN 15 ELSE 0)
             + (IF protein >= 10 THEN 10 ELSE 0)
             + (IF Get(n, "category", None) \in {Some(Rau), Some(TraiCay), Some(Ca)}
                THEN 20 ELSE 0)
             + (IF sodium > 600 THEN -20 ELSE 0)
        ELSE 50
  IN Max(0, Min(100, score))

\* variant: the deltas of the first two buckets of the dominant nutrient
\* exchanged
calculate_safety_score_swapped(n, d) ==
  LET calories == OrZero(Get(n, "calories", Some(0)))
      carbs == OrZero(Get(n, "carbs", Some(0)))
      fat == OrZero(Get(n, "fat", Some(0)))
      protein == OrZero(Get(n, "protein", Some(0)))
      score ==
        IF d = TieuDuong THEN
          50 + (IF carbs <= 30 THEN 10 ELSE IF carbs <= 50 THEN 20 ELSE -20)
             + (IF protein >= 15 THEN 15 ELSE 0)
             + (IF calories <= 400 THEN 15 ELSE 0)
        ELSE IF d = BeoPhi THEN
          50 + (IF calories <= 200 THEN 10 ELSE IF calories <= 400 THEN 25 ELSE -25)
             + (IF fat <= 10 THEN 15 ELSE IF fat <= 20 THEN 5 ELSE -15)
        ELSE IF d = HuyetApCao THEN
          50 + (IF calories <= 300 THEN 15 ELSE 0)
             + (IF protein >= 10 THEN 10 ELSE 0)
             + (IF Get(n, "category", None) \in {Some(Rau), Some(TraiCay), Some(Ca)}
                THEN 20 ELSE 0)
        ELSE 50
  IN Max(0, Min(100, score))

\* variant: every penalty doubled, so that the sum may fall below 0
calculate_safety_score_doubled(n, d) ==
  LET calories == OrZero(Get(n, "calories", Some(0)))
      carbs == OrZero(Get(n, "carbs", Some(0)))
      fat == OrZero(Get(n, "fat", Some(0)))
      protein == OrZero(Get(n, "protein", Some(0)))
      score ==
        IF d = TieuDuong THEN
          50 + (IF carbs <= 30 THEN 20 ELSE IF carbs <= 50 THEN 10 ELSE -40)
             + (IF protein >= 15 THEN 15 ELSE 0)
             + (IF calories <= 400 THEN 15 ELSE 0)
        ELSE IF d = BeoPhi THEN
          50 + (IF calories <= 200 THEN 25 ELSE IF calories <= 400 THEN 10 ELSE -50)
             + (IF fat <= 10 THEN 15 ELSE IF fat <= 20 THEN 5 ELSE -30)
        ELSE IF d = HuyetApCao THEN
          50 + (IF calories <= 300 THEN 15 ELSE 0)
             + (IF protein >= 10 THEN 10 ELSE 0)
             + (IF Get(n, "category", None) \in {Some(Rau), Some(TraiCay), Some(Ca)}
                THEN 20 ELSE 0)
        ELSE 50
  IN Max(0, Min(100, score))

\* HealthAdvisorTool._calculate_safety_score
calculate_safety_score(n, d) ==
  LET calories == OrZero(Get(n, "calories", Some(0)))
      carbs == OrZero(Get(n, "carbs", Some(0)))
      fat == OrZero(Get(n, "fat", Some(0)))
      protein == OrZero(Get(n, "protein", Some(0)))
      score ==
        IF d = TieuDuong THEN
          50 + (IF carbs <= 30 THEN 20 ELSE IF carbs <= 50 THEN 10 ELSE -20)
             + (IF protein >= 15 THEN 15 ELSE 0)
             + (IF calories <= 400 THEN 15 ELSE 0)
        ELSE IF d = BeoPhi THEN
          50 + (IF calories <= 200 THEN 25 ELSE IF calories <= 400 THEN 10 ELSE -25)
             + (IF fat <= 10 THEN 15 ELSE IF fat <= 20 THEN 5 ELSE -15)
        ELSE IF d = HuyetApCao THEN
          50 + (IF calories <= 300 THEN 15 ELSE 0)
             + (IF protein >= 10 THEN 10 ELSE 0)
             + (IF Get(n, "category", None) \in {Some(Rau), Some(TraiCay), Some(Ca)}
                THEN 20 ELSE 0)
        ELSE 50
  IN Max(0, Min(100, score))

-----------------------------------------------------------------------------
(* Nutrition lookup: the Food table and the built-in table *)

\* DatabaseHelpers.get_food_nutrition, lines 47-72: the dict built from a Food
\* row.  A row is [name, category, calories_per_100g, high_glycemic,
\* high_sodium, image_url, nutrients]; nutrients is the sequence of
\* [name, amount_per_100g] of the row's FoodNutrient relations.  Numeric
\* columns are modelled as integers.
RECURSIVE nutrient_keys(_, _)
nutrient_keys(data, rels) ==
  IF rels = <<>> THEN data
  ELSE
    LET nutrient_name == Lower(Head(rels).name)
        a == Head(rels).amount
        amount == IF a = None \/ a = Some(0) THEN Some(0) ELSE a
        key ==
          IF IsSubstr(<<"p", "r", "o", "t", "e", "i", "n">>, nutrient_name) THEN "protein"
          ELSE IF \/ IsSubstr(<<"c", "a", "r", "b">>, nutrient_name)
                  \/ IsSubstr(<<"c", "a", "r", "b", "o", "h", "y", "d", "r", "a", "t", "e">>, nutrient_name)
               THEN "carbs"
          ELSE IF IsSubstr(<<"f", "a", "t">>, nutrient_name) THEN "fat"
          ELSE IF IsSubstr(<<"f", "i", "b", "e", "r">>, nutrient_name) THEN "fiber"
          ELSE IF IsSubstr(<<"s", "o", "d", "i", "u", "m">>, nutrient_name) THEN "sodium"
          ELSE ""
    IN nutrient_keys(IF key = "" THEN data ELSE (key :> amount) @@ data, Tail(rels))

nutrition_data(food_item) ==
  nutrient_keys(
    [name |-> Some(food_item.name),
     category |-> food_item.category,
     calories |-> IF food_item.calories_per_100g = 0
                  THEN Some(0) ELSE Some(food_item.calories_per_100g),
     high_glycemic |-> Some(food_item.high_glycemic),
     high_sodium |-> Some(food_item.high_sodium),
     image_url |-> food_item.image_url],
    food_item.nutrients)

\* Food.name.ilike("%" + food_name + "%"): the rows whose name contains the
\* text, letter case ignored (the texts of the model hold no % or _ wildcard)
ilike_rows(foods, food_name) ==
  {r \in foods : IsSubstr(Lower(food_name), Lower(r.name))}

\* DatabaseHelpers.get_food_nutrition: every value the call can return on a
\* Food table.  first() runs without ORDER BY, so any matching row may be the
\* one returned; a query that raises is caught and gives None.
get_food_nutrition(food_name, foods, raises) ==
  IF raises \/ ilike_rows(foods, food_name) = {}
  THEN {None}
  ELSE {Some(nutrition_data(r)) : r \in ilike_rows(foods, food_name)}

Banh == <<"b", "a'", "n", "h">>
Com == <<"c", "o+", "m">>

\* HealthAdvisorTool._get_fallback_nutrition, food_db in its order
\* (2.7 and 0.3 of "cơm trắng" are written 3 and 0: no threshold of the
\* scorer lies between)
food_db ==
  << << <<"p", "h", "o+?", " ", "b", "o-">>,
        [calories |-> Some(450), protein |-> Some(30), carbs |-> Some(45), fat |-> Some(15), category |-> Some(Pho)] >>,
     << <<"c", "o+", "m", " ", "t", "r", "a('", "n", "g">>,
        [calories |-> Some(130), protein |-> Some(3), carbs |-> Some(28), fat |-> Some(0), category |-> Some(Com)] >>,
     << <<"b", "a'", "n", "h", " ", "m", "i-">>,
        [calories |-> Some(400), protein |-> Some(15), carbs |-> Some(50), fat |-> Some(18), category |-> Some(Banh)] >>,
     << <<"g", "o?", "i", " ", "c", "u", "o^'", "n">>,
        [calories |-> Some(60), protein |-> Some(5), carbs |-> Some(8), fat |-> Some(2), category |-> Some(<<"g", "o?", "i">>)] >>,
     << <<"c", "o+", "m", " ", "t", "a^'", "m">>,
        [calories |-> Some(650), protein |-> Some(35), carbs |-> Some(70), fat |-> Some(22), category |-> Some(Com)] >>,
     << <<"b", "u'", "n", " ", "b", "o-", " ", "h", "u", "e^'">>,
        [calories |-> Some(550), protein |-> Some(28), carbs |-> Some(55), fat |-> Some(20), category |-> Some(<<"b", "u'", "n">>)] >>,
     << <<"b", "a'", "n", "h", " ", "x", "e-", "o">>,
        [calories |-> Some(350), protein |-> Some(12), carbs |-> Some(40), fat |-> Some(16), category |-> Some(Banh)] >>,
     << <<"c", "h", "a'", "o", " ", "g", "a-">>,
        [calories |-> Some(280), protein |-> Some(20), carbs |-> Some(35), fat |-> Some(8), category |-> Some(<<"c", "h", "a'", "o">>)] >> >>

\* the "fuzzy" match of the built-in tables
fuzzy_match(food_lower, key) == IsSubstr(food_lower, key) \/ IsSubstr(key, food_lower)

\* the loop over a table's items: the data of the first key that matches
first_match(table, food_lower) ==
  IF \E i \in 1..Len(table) : fuzzy_match(food_lower, table[i][1])
  THEN Some(table[CHOOSE i \in 1..Len(table) :
                    /\ fuzzy_match(food_lower, table[i][1])
                    /\ \A j \in 1..(i - 1) : ~fuzzy_match(food_lower, table[j][1])][2])
  ELSE None

\* variant: a name that matches no key gets the first entry's facts
get_fallback_nutrition_default(name) ==
  LET found == first_match(food_db, Lower(name))
  IN IF found = None THEN Some(food_db[1][2]) ELSE found

\* variant: the last matching entry of the table wins
get_fallback_nutrition_last(name) ==
  LET food_lower == Lower(name)
      matching == {i \in 1..Len(food_db) : fuzzy_match(food_lower, food_db[i][1])}
  IN IF matching = {} THEN None
     ELSE Some(food_db[CHOOSE i \in matching : \A j \in matching : j <= i][2])

\* HealthAdvisorTool._get_fallback_nutrition
get_fallback_nutrition(name) == first_match(food_db, Lower(name))

-----------------------------------------------------------------------------
(* Food analysis *)

\* the three values of "mức_độ_an_toàn" (the source appends an emoji to each)
RatAnToan == "RA^'T AN TOA-N"
ChapNhanDuoc == "CHA^'P NHA^.N DDU+O+.C"
KhongNenAn == "KHO^NG NE^N A(N"

\* variant: the thresholds compared strictly
safety_level_strict(score) ==
  IF score > 80 THEN RatAnToan
  ELSE IF score > 60 THEN ChapNhanDuoc
  ELSE KhongNenAn

\* HealthAdvisorTool._analyze_food_for_disease, lines 166-175
safety_level(score) ==
  IF score >= 80 THEN RatAnToan
  ELSE IF score >= 60 THEN ChapNhanDuoc
  ELSE KhongNenAn

specific_advice(score) ==
  IF score >= 80 THEN <<"Mo'n a(n na-y ra^'t phu- ho+.p vo+'i be^.nh ly' cu?a ba.n">>
  ELSE IF score >= 60 THEN <<"Co' the^? a(n nhu+ng ca^-n ha.n che^' kha^?u pha^-n">>
  ELSE <<"Ne^n tra'nh mo'n a(n na-y">>

\* HealthAdvisorTool._analyze_nutrients_for_disease.  Keys: gia_tri is
\* "giá_trị" (the number and the unit text that follows it), gioi_han is
\* "giới_hạn", trang_thai is "trạng_thái", ly_do is "lý_do"; tong_quan is
\* "tổng_quan".
analyze_nutrients_for_disease(n, d) ==
  LET calories == OrZero(Get(n, "calories", Some(0)))
      carbs == OrZero(Get(n, "carbs", Some(0)))
      protein == OrZero(Get(n, "protein", Some(0)))
  IN
  IF d = TieuDuong THEN
    [carbohydrate |->
       [gia_tri |-> <<carbs, "g">>,
        gioi_han |-> "< 50g/bu+~a",
        trang_thai |-> IF carbs <= 30 THEN "AN TOA-N"
                       ELSE IF carbs <= 50 THEN "CHA^'P NHA^.N DDU+O+.C"
                       ELSE "NGUY HIE^?M",
        ly_do |-> "Carbs cao la-m ta(ng ddu+o+-ng huye^'t"]]
  ELSE IF d = BeoPhi THEN
    [calo |->
       [gia_tri |-> <<calories, " kcal">>,
        trang_thai |-> IF calories <= 200 THEN "I'T CALO"
                       ELSE IF calories <= 400 THEN "TRUNG BI-NH"
                       ELSE "NHIE^-U CALO",
        ly_do |-> "Calo cao da^~n dde^'n ta(ng ca^n"]]
  ELSE IF d = HuyetApCao THEN
    [tong_quan |->
       [gia_tri |-> <<calories, " kcal, ", protein, "g protein">>,
        trang_thai |-> "CA^-N KIE^?M TRA MUO^'I",
        ly_do |-> "Ca^-n tra'nh muo^'i va- thu+.c pha^?m che^' bie^'n sa(~n"]]
  ELSE EmptyDict

\* HealthAdvisorTool._get_adjustment_suggestions
get_adjustment_suggestions(n, d) ==
  LET calories == OrZero(Get(n, "calories", Some(0)))
      carbs == OrZero(Get(n, "carbs", Some(0)))
  IN
  IF d = TieuDuong THEN
    (IF carbs > 45
     THEN <<"Gia?m kha^?u pha^-n xuo^'ng 1/2", "A(n ke-m rau xanh dde^? ta(ng cha^'t xo+">>
     ELSE <<>>)
    \o <<"Thay co+m tra('ng ba(-ng ga.o lu+'t ne^'u co'">>
  ELSE IF d = BeoPhi THEN
    (IF calories > 400
     THEN <<"Gia?m kha^?u pha^-n xuo^'ng 2/3", "Ta(ng rau xanh, gia?m carbs">>
     ELSE <<>>)
    \o <<"Cho.n phu+o+ng pha'p na^'u ha^'p, luo^.c thay vi- chie^n">>
  ELSE IF d = HuyetApCao THEN
    <<"Ye^u ca^-u na^'u i't muo^'i hoa(.c kho^ng muo^'i",
      "Kho^ng the^m nu+o+'c ma('m, tu+o+ng o+'t",
      "A(n ke-m chuo^'i hoa(.c rau gia-u kali">>
  ELSE <<>>

\* "Không tìm thấy thông tin dinh dưỡng cho '" and the hint that follows
NotFoundPrefix ==
  <<"K", "h", "o^", "n", "g", " ", "t", "i-", "m", " ", "t", "h", "a^'", "y", " ",
    "t", "h", "o^", "n", "g", " ", "t", "i", "n", " ", "d", "i", "n", "h", " ",
    "d", "u+", "o+~", "n", "g", " ", "c", "h", "o", " ", "'">>

\* HealthAdvisorTool._analyze_food_for_disease on the dict the database lookup
\* returned (or None).  Keys: loi is "lỗi", goi_y is "gợi_ý", thong_tin_mon_an
\* is "thông_tin_món_ăn" (ten "tên", khau_phan "khẩu_phần", dinh_duong_chi_tiet
\* "dinh_dưỡng_chi_tiết"), phan_tich_cho_benh is "phân_tích_cho_bệnh",
\* danh_gia_tung_chat is "đánh_giá_từng_chất", muc_do_an_toan is
\* "mức_độ_an_toàn", diem_so is "điểm_số", loi_khuyen_cu_the is
\* "lời_khuyên_cụ_thể", cach_dieu_chinh is "cách_điều_chỉnh".
analyze_food_for_disease(d, name, portion_size, from_db) ==
  LET nutrition_info == IF from_db = None THEN get_fallback_nutrition(name) ELSE from_db
  IN
  IF nutrition_info = None THEN
    [loi |-> NotFoundPrefix \o name \o <<"'">>,
     goi_y |-> "Thu+? vo+'i te^n mo'n a(n kha'c nhu+: pho+? bo-, co+m ta^'m, ba'nh mi-, go?i cuo^'n"]
  ELSE
    LET score == calculate_safety_score(nutrition_info[1], d)
    IN [thong_tin_mon_an |->
          [ten |-> name, khau_phan |-> portion_size, dinh_duong_chi_tiet |-> nutrition_info[1]],
        phan_tich_cho_benh |-> d,
        danh_gia_tung_chat |-> analyze_nutrients_for_disease(nutrition_info[1], d),
        muc_do_an_toan |-> safety_level(score),
        diem_so |-> score,
        loi_khuyen_cu_the |-> specific_advice(score),
        cach_dieu_chinh |-> get_adjustment_suggestions(nutrition_info[1], d)]

-----------------------------------------------------------------------------
(* General advice: the disease rules and the suitable foods *)

IsLetter(c) == c \in DOMAIN LowerMap \/ c \in DOMAIN UpperMap

\* str.title(): a letter that follows a non-letter is upper case, the rest lower
Title(s) ==
  [i \in 1..Len(s) |->
     IF i = 1 \/ ~IsLetter(s[i - 1]) THEN UpperChar(s[i]) ELSE LowerChar(s[i])]

TieuDuongType2 == TieuDuong \o <<" ", "t", "y", "p", "e", " ", "2">>
CaoHuyetAp == <<"C", "a", "o", " ", "h", "u", "y", "e^'", "t", " ", "a'", "p">>

\* DatabaseHelpers.get_disease_rules, disease_map
rules_disease_map ==
  << <<Lower(TieuDuong), TieuDuongType2>>,
     << <<"dd", "a'", "i", " ", "t", "h", "a'", "o", " ", "dd", "u+", "o+-", "n", "g">>, TieuDuongType2>>,
     << <<"d", "i", "a", "b", "e", "t", "e", "s">>, TieuDuongType2>>,
     <<Lower(BeoPhi), BeoPhi>>,
     << <<"o", "b", "e", "s", "i", "t", "y">>, BeoPhi>>,
     <<Lower(HuyetApCao), CaoHuyetAp>>,
     << <<"t", "a(", "n", "g", " ", "h", "u", "y", "e^'", "t", " ", "a'", "p">>, CaoHuyetAp>>,
     <<Lower(CaoHuyetAp), CaoHuyetAp>>,
     << <<"h", "y", "p", "e", "r", "t", "e", "n", "s", "i", "o", "n">>, CaoHuyetAp>>,
     << <<"g", "o", "u", "t">>, <<"G", "o", "u", "t">> >> >>

\* DatabaseHelpers._get_fallback_disease_rules
fallback_rules ==
  << <<TieuDuong,
       [disease_name |-> TieuDuong, max_daily_calories |-> 1800, max_daily_carbs |-> 150,
        foods_to_avoid |-> <<"ddu+o+-ng tra('ng", "ba'nh ngo.t", "nu+o+'c ngo.t", "co+m tra('ng">>,
        recommended_foods |-> <<"rau xanh", "ca'", "tru+'ng", "ye^'n ma.ch">>,
        guidelines |-> Some([len |-> 44, text |-> "A(n i't ddu+o+-ng, nhie^-u cha^'t xo+. Chia nho? bu+~a a(n."])]>>,
     <<BeoPhi,
       [disease_name |-> BeoPhi, max_daily_calories |-> 1500, max_daily_fat |-> 50,
        foods_to_avoid |-> <<"ddo^- chie^n", "thu+'c a(n nhanh", "nu+o+'c ngo.t">>,
        recommended_foods |-> <<"rau cu?", "tra'i ca^y i't ddu+o+-ng", "u+'c ga-", "ca'">>,
        guidelines |-> Some([len |-> 52, text |-> "Gia?m calo, ta(ng va^.n ddo^.ng. A(n nhie^-u rau, i't cha^'t be'o."])]>>,
     <<HuyetApCao,
       [disease_name |-> HuyetApCao, max_daily_sodium |-> 1500,
        foods_to_avoid |-> <<"muo^'i", "nu+o+'c ma('m", "ddo^- ho^.p", "thi.t hun kho'i">>,
        recommended_foods |-> <<"chuo^'i", "rau bina", "ca' ho^-i", "ye^'n ma.ch">>,
        guidelines |-> Some([len |-> 42, text |-> "Ha.n che^' muo^'i, ta(ng kali. A(n nhie^-u rau qua?."])]>> >>

get_fallback_disease_rules(disease_name) == DictGet(fallback_rules, disease_name)

\* "x or y" for two optional texts
OrElse(x, y) == IF x = None \/ x = Some(<<>>) THEN y ELSE x

\* A free text of the database or of the rule table, whose characters no
\* code inspects, is [len, text]: its length and its content.
\* "x or y" for two such texts
OrText(x, y) == IF x = None \/ x[1].len = 0 THEN y ELSE x

\* DatabaseHelpers.get_disease_rules, lines 130-139: the dict built from a
\* MedicalCondition row [name, code, description, recommended_diet_type,
\* warnings, recommended_calories_multiplier, nutrient_limits]
condition_rules(mc) ==
  [disease_name |-> mc.name,
   code |-> mc.code,
   description |-> mc.description,
   recommended_diet_type |-> mc.recommended_diet_type,
   warnings |-> mc.warnings,
   recommended_calories_multiplier |->
     IF mc.recommended_calories_multiplier \in {None, Some(0)}
     THEN Some(1) ELSE mc.recommended_calories_multiplier,
   nutrient_limits |-> mc.nutrient_limits,
   guidelines |-> OrText(mc.description, mc.warnings)]

\* DatabaseHelpers.get_disease_rules: every value the call can return on a
\* MedicalCondition table (first() without ORDER BY; a query that raises
\* falls back with the lower-cased name)
get_disease_rules(disease_name, conditions, raises) ==
  LET lowered == Lower(Strip(disease_name))
      mapped == DictGet(rules_disease_map, lowered)
      standardized_name == IF mapped = None THEN Title(lowered) ELSE mapped[1]
      found == {mc \in conditions : IsSubstr(Lower(standardized_name), Lower(mc.name))}
  IN IF raises THEN {get_fallback_disease_rules(lowered)}
     ELSE IF found = {} THEN {get_fallback_disease_rules(standardized_name)}
     ELSE {Some(condition_rules(mc)) : mc \in found}

\* DatabaseHelpers._get_fallback_suitable_foods (numbers are kept as written)
get_fallback_suitable_foods(disease_name) ==
  IF IsSubstr(Lower(TieuDuong), Lower(disease_name)) THEN
    <<[name |-> "Rau xanh", calories |-> "25", protein |-> "3", carbs |-> "5", category |-> "rau"],
      [name |-> "Ca' ho^-i", calories |-> "180", protein |-> "25", carbs |-> "0", category |-> "protein"],
      [name |-> "Tru+'ng ga-", calories |-> "155", protein |-> "13", carbs |-> "1", category |-> "protein"],
      [name |-> "Ye^'n ma.ch", calories |-> "68", protein |-> "2.5", carbs |-> "12", category |-> "ngu~ co^'c"],
      [name |-> "Qua? bo+", calories |-> "160", protein |-> "2", carbs |-> "9", category |-> "tra'i ca^y"]>>
  ELSE IF IsSubstr(Lower(BeoPhi), Lower(disease_name)) THEN
    <<[name |-> "Du+a chuo^.t", calories |-> "16", protein |-> "0.7", carbs |-> "4", category |-> "rau"],
      [name |-> "Ca- chua", calories |-> "18", protein |-> "0.9", carbs |-> "4", category |-> "rau"],
      [name |-> "U+'c ga- luo^.c", calories |-> "165", protein |-> "31", carbs |-> "0", category |-> "protein"],
      [name |-> "Rau muo^'ng", calories |-> "19", protein |-> "2.6", carbs |-> "3", category |-> "rau"],
      [name |-> "Ca' die^'c", calories |-> "90", protein |-> "18", carbs |-> "0", category |-> "protein"]>>
  ELSE
    <<[name |-> "Chuo^'i", calories |-> "89", protein |-> "1.1", carbs |-> "23", category |-> "tra'i ca^y"],
      [name |-> "Rau bina", calories |-> "23", protein |-> "2.9", carbs |-> "4", category |-> "rau"],
      [name |-> "Ye^'n ma.ch", calories |-> "68", protein |-> "2.5", carbs |-> "12", category |-> "ngu~ co^'c"],
      [name |-> "Ca' thu", calories |-> "140", protein |-> "25", carbs |-> "0", category |-> "protein"],
      [name |-> "DDa^.u dden", calories |-> "132", protein |-> "9", carbs |-> "23", category |-> "dda^.u"]>>

\* DatabaseHelpers.get_suitable_foods_for_disease, lines 262-281
RECURSIVE suitable_keys(_, _)
suitable_keys(data, rels) ==
  IF rels = <<>> THEN data
  ELSE
    LET nutrient_name == Lower(Head(rels).name)
        a == Head(rels).amount
        amount == IF a = None \/ a = Some(0) THEN Some(0) ELSE a
    IN suitable_keys(
         IF IsSubstr(<<"p", "r", "o", "t", "e", "i", "n">>, nutrient_name)
         THEN [data EXCEPT !.protein = amount]
         ELSE IF IsSubstr(<<"c", "a", "r", "b">>, nutrient_name)
         THEN [data EXCEPT !.carbs = amount]
         ELSE data,
         Tail(rels))

suitable_food_data(food) ==
  suitable_keys(
    [name |-> Some(food.name),
     calories |-> IF food.calories_per_100g = 0 THEN Some(0) ELSE Some(food.calories_per_100g),
     category |-> OrElse(food.category, Some(<<"k", "h", "a'", "c">>)),
     protein |-> Some(0),
     carbs |-> Some(0)],
    food.nutrients)

\* ORDER BY calories_per_100g ASC LIMIT limit: every order the database may
\* return the rows in (rows of equal calories come in any order)
order_by_calories(rows, limit) ==
  LET n == Cardinality(rows)
      sorted == {s \in [1..n -> rows] :
                   /\ \A i, j \in 1..n : i /= j => s[i] /= s[j]
                   /\ \A i \in 1..(n - 1) : s[i].calories_per_100g <= s[i + 1].calories_per_100g}
  IN {SubSeq(s, 1, Min(limit, n)) : s \in sorted}

\* DatabaseHelpers.get_suitable_foods_for_disease: every list the call can
\* return on a Food table
get_suitable_foods_for_disease(disease_name, limit, foods, raises) ==
  LET lowered == Lower(Strip(disease_name))
      rows ==
        IF \/ IsSubstr(Lower(TieuDuong), lowered)
           \/ IsSubstr(<<"d", "i", "a", "b", "e", "t", "e", "s">>, lowered)
        THEN {f \in foods : f.high_glycemic = FALSE}
        ELSE IF \/ IsSubstr(<<"h", "u", "y", "e^'", "t", " ", "a'", "p">>, lowered)
                \/ IsSubstr(<<"h", "y", "p", "e", "r", "t", "e", "n", "s", "i", "o", "n">>, lowered)
        THEN {f \in foods : f.high_sodium = FALSE}
        ELSE {f \in foods : f.calories_per_100g < 100}
  IN IF raises \/ rows = {} THEN {get_fallback_suitable_foods(lowered)}
     ELSE {[i \in 1..Len(s) |-> suitable_food_data(s[i])] : s \in order_by_calories(rows, limit)}

\* HealthAdvisorTool._get_critical_nutrients
get_critical_nutrients(d) ==
  IF d = TieuDuong THEN
    <<"DDu+o+-ng", "Tinh bo^.t tinh che^'", "Co+m tra('ng", "Nu+o+'c ngo.t", "Ba'nh ke.o">>
  ELSE IF d = BeoPhi THEN
    <<"Cha^'t be'o ba~o ho-a", "DDo^- chie^n ra'n", "DDo^- a(n nhanh", "Nu+o+'c ngo.t co' gas", "Bo+ thu+.c va^.t">>
  ELSE IF d = HuyetApCao THEN
    <<"Muo^'i", "Ma('m", "Thi.t hun kho'i", "DDo^- ho^.p", "Nu+o+'c ma('m co^ng nghie^.p">>
  ELSE <<>>

\* HealthAdvisorTool._get_disease_advice
get_disease_advice(d) ==
  IF d = TieuDuong THEN
    "A(n i't ddu+o+-ng, nhie^-u cha^'t xo+. Chia nho? bu+~a a(n. Kie^?m tra ddu+o+-ng huye^'t thu+o+-ng xuye^n."
  ELSE IF d = BeoPhi THEN
    "Gia?m calo, ta(ng va^.n ddo^.ng. A(n nhie^-u rau, i't cha^'t be'o. Uo^'ng nhie^-u nu+o+'c."
  ELSE IF d = HuyetApCao THEN
    "Ha.n che^' muo^'i, ta(ng kali. A(n nhie^-u rau qua?. Tra'nh ca(ng tha(?ng."
  ELSE "Tham kha?o y' kie^'n ba'c si~ chuye^n khoa."

\* HealthAdvisorTool._get_restricted_foods
get_restricted_foods(d) ==
  IF d = TieuDuong THEN
    <<"Ba'nh ngo.t", "Nu+o+'c ngo.t", "Co+m tra('ng", "Ba'nh mi- tra('ng", "Ke.o", "Ma^.t ong", "Tra'i ca^y ngo.t">>
  ELSE IF d = BeoPhi THEN
    <<"DDo^- chie^n", "Ba'nh ke.o", "Nu+o+'c ngo.t", "Thu+'c a(n nhanh", "Kem", "Ba'nh quy", "DDo^- uo^'ng co' co^-n">>
  ELSE IF d = HuyetApCao THEN
    <<"Muo^'i a(n", "Nu+o+'c ma('m", "Tu+o+ng o+'t", "Thi.t hun kho'i", "DDo^- ho^.p", "Mi- go'i", "Ba'nh tra'ng nu+o+'ng">>
  ELSE <<>>

\* HealthAdvisorTool._get_recommended_foods
get_recommended_foods(d) ==
  IF d = TieuDuong THEN
    <<"Rau xanh", "Ca'", "Tru+'ng", "Ye^'n ma.ch", "DDa^.u", "Qua? bo+", "Ha.t o'c cho'">>
  ELSE IF d = BeoPhi THEN
    <<"Rau cu?", "Tra'i ca^y i't ddu+o+-ng", "Ca'", "U+'c ga-", "DDa^.u", "Ye^'n ma.ch", "Nu+o+'c lo.c">>
  ELSE IF d = HuyetApCao THEN
    <<"Chuo^'i", "Rau bina", "Ca' ho^-i", "Ye^'n ma.ch", "DDa^.u dden", "Ha.t lanh", "Tra- xanh">>
  ELSE <<>>

\* HealthAdvisorTool._get_max_calories_per_meal
get_max_calories_per_meal(d) ==
  IF d = TieuDuong THEN 500
  ELSE IF d = BeoPhi THEN 400
  ELSE IF d = HuyetApCao THEN 600
  ELSE 500

\* seq[:k]
Prefix(s, k) == SubSeq(s, 1, Min(k, Len(s)))

\* HealthAdvisorTool._get_general_health_advice on the rules and the foods the
\* two database helpers returned.  Keys: benh is "bệnh", canh_bao_nang_nhat is
\* "cảnh_báo_nặng_nhất", loi_khuyen_ngan_gon is "lời_khuyên_ngắn_gọn",
\* han_che_nghiem_ngat is "hạn_chế_nghiêm_ngặt", nen_an_nhieu is
\* "nên_ăn_nhiều", calo_toi_da_moi_bua is "calo_tối_đa_mỗi_bữa",
\* thuc_pham_an_toan_hom_nay is "thực_phẩm_an_toàn_hôm_nay", huong_dan_chi_tiet
\* is "hướng_dẫn_chi_tiết", tranh_hoan_toan is "tránh_hoàn_toàn", khuyen_khich
\* is "khuyến_khích", gioi_han_calo_ngay is "giới_hạn_calo_ngày".
get_general_health_advice(d, disease_rules, suitable_foods) ==
  LET base ==
        [benh |-> d,
         canh_bao_nang_nhat |-> get_critical_nutrients(d),
         loi_khuyen_ngan_gon |-> get_disease_advice(d),
         han_che_nghiem_ngat |-> get_restricted_foods(d),
         nen_an_nhieu |-> get_recommended_foods(d),
         calo_toi_da_moi_bua |-> get_max_calories_per_meal(d),
         thuc_pham_an_toan_hom_nay |-> suitable_foods]
      r == disease_rules[1]
      guidelines == Get(r, "guidelines", None)
      \* guidelines[:300] + "..." keeps the first 300 characters (cut) and adds 3
      g ==
        IF guidelines = None \/ guidelines[1].len = 0 THEN EmptyDict
        ELSE "huong_dan_chi_tiet" :>
               (IF guidelines[1].len > 300
                THEN [len |-> 300 + 3, text |-> guidelines[1].text, cut |-> 300]
                ELSE guidelines[1])
      a ==
        IF Get(r, "foods_to_avoid", <<>>) = <<>> THEN EmptyDict
        ELSE "tranh_hoan_toan" :> Prefix(r.foods_to_avoid, 5)
      k ==
        IF Get(r, "recommended_foods", <<>>) = <<>> THEN EmptyDict
        ELSE "khuyen_khich" :> Prefix(r.recommended_foods, 5)
      c ==
        IF Get(r, "max_daily_calories", 0) = 0 THEN EmptyDict
        ELSE "gioi_han_calo_ngay" :> r.max_daily_calories
  IN IF disease_rules = None THEN base ELSE base @@ g @@ a @@ k @@ c

\* HealthAdvisorTool._create_error_response.  Keys: loi is "lỗi", ban_nhap is
\* "bạn_nhập", goi_y is "gợi_ý".
create_error_response(text) ==
  [loi |-> <<"H", "i", "e^.", "n", " ", "t", "a.", "i", " ", "c", "h", "i?", " ",
             "h", "o^~", " ", "t", "r", "o+.", " ", "3", " ", "b", "e^.", "n", "h", ":", " ">>
           \o TieuDuong \o <<",", " ">> \o BeoPhi \o <<",", " ">> \o HuyetApCao,
   ban_nhap |-> text,
   goi_y |-> "Ha~y nha^.p: 'tie^?u ddu+o+-ng', 'be'o phi-', hoa(.c 'huye^'t a'p cao'"]

-----------------------------------------------------------------------------
(* The simplified advisor (health_advisor_simple.py) *)

BenhTimMach == <<"B", "e^.", "n", "h", " ", "t", "i", "m", " ", "m", "a.", "c", "h">>

\* health_advisor_simple.HealthAdvisorTool.DISEASE_MAP
SIMPLE_DISEASE_MAP ==
  << <<Lower(TieuDuong), TieuDuong>>,
     << <<"dd", "a'", "i", " ", "t", "h", "a'", "o", " ", "dd", "u+", "o+-", "n", "g">>, TieuDuong>>,
     << <<"d", "i", "a", "b", "e", "t", "e", "s">>, TieuDuong>>,
     <<Lower(BeoPhi), BeoPhi>>,
     << <<"t", "h", "u+-", "a", " ", "c", "a^", "n">>, BeoPhi>>,
     << <<"o", "b", "e", "s", "i", "t", "y">>, BeoPhi>>,
     <<Lower(CaoHuyetAp), HuyetApCao>>,
     <<Lower(HuyetApCao), HuyetApCao>>,
     << <<"h", "y", "p", "e", "r", "t", "e", "n", "s", "i", "o", "n">>, HuyetApCao>>,
     << <<"t", "i", "m", " ", "m", "a.", "c", "h">>, BenhTimMach>>,
     << <<"b", "e^.", "n", "h", " ", "t", "i", "m">>, BenhTimMach>> >>

\* health_advisor_simple.HealthAdvisorTool._normalize_disease_name
simple_normalize_disease_name(text) == DictGet(SIMPLE_DISEASE_MAP, Strip(Lower(text)))

\* health_advisor_simple.HealthAdvisorTool._create_error_response.  Keys: loi
\* is "lỗi", goi_y is "gợi_ý", huong_dan is "hướng_dẫn".
simple_create_error_response(text) ==
  [loi |-> <<"K", "h", "o^", "n", "g", " ", "n", "h", "a^.", "n", " ", "d", "i", "e^.", "n", " ",
             "dd", "u+", "o+.", "c", " ", "b", "e^.", "n", "h", " ", "l", "y'", ":", " ">> \o text,
   goi_y |-> <<"C", "a'", "c", " ", "b", "e^.", "n", "h", " ", "l", "y'", " ", "dd", "u+", "o+.", "c", " ",
               "h", "o^~", " ", "t", "r", "o+.", ":", " ">>
             \o Lower(TieuDuong) \o <<",", " ">> \o Lower(BeoPhi) \o <<",", " ">>
             \o Lower(CaoHuyetAp) \o <<",", " ">> \o Lower(BenhTimMach),
   huong_dan |-> "Vui lo-ng nha^.p te^n be^.nh chi'nh xa'c hoa(.c lie^n he^. ba'c si~ chuye^n khoa"]

\* health_advisor_simple.HealthAdvisorTool._get_general_advice, advice_map.
\* Keys: nguyen_tac_chinh is "nguyên_tắc_chính", nen_an is "nên_ăn", tranh_an
\* is "tránh_ăn", luu_y is "lưu_ý".
advice_map ==
  << <<TieuDuong,
       [nguyen_tac_chinh |-> "Kie^?m soa't ddu+o+-ng huye^'t, ha.n che^' carbohydrate ddo+n gia?n",
        nen_an |-> <<"Rau xanh (rau muo^'ng, ca?i xanh, bo^ng ca?i xanh)", "Protein na.c (u+'c ga-, ca', dda^.u hu~)", "Ngu~ co^'c nguye^n ha.t (ga.o lu+'t, ye^'n ma.ch)", "Ca'c loa.i dda^.u (dda^.u dden, dda^.u xanh)">>,
        tranh_an |-> <<"DDu+o+-ng tra('ng, ba'nh ngo.t, ke.o", "Nu+o+'c ngo.t co' ga, nu+o+'c tra'i ca^y ddo'ng ho^.p", "Co+m tra('ng, ba'nh mi- tra('ng", "Tra'i ca^y nhie^-u ddu+o+-ng (xoa-i chi'n, mi't)">>,
        luu_y |-> "A(n nhie^-u bu+~a nho?, kie^?m soa't portion size, ta^.p the^? du.c dde^-u dda(.n"]>>,
     <<BeoPhi,
       [nguyen_tac_chinh |-> "Gia?m calo, ta(ng cu+o+-ng hoa.t ddo^.ng the^? cha^'t",
        nen_an |-> <<"Rau cu? qua? tu+o+i", "Protein na.c (ca', u+'c ga- kho^ng da)", "Ngu~ co^'c nguye^n ha.t", "Su+~a i't be'o">>,
        tranh_an |-> <<"DDo^- chie^n ra'n, fast food", "DDo^- uo^'ng co' ddu+o+-ng", "Ba'nh ke.o, snack", "Thi.t be'o, da ddo^.ng va^.t">>,
        luu_y |-> "Gia?m 0.5-1kg/tua^-n la- an toa-n, uo^'ng nhie^-u nu+o+'c, ngu? ddu? gia^'c"]>>,
     <<HuyetApCao,
       [nguyen_tac_chinh |-> "Gia?m natrium, ta(ng kali, kie^?m soa't ca^n na(.ng",
        nen_an |-> <<"Rau xanh gia-u kali (rau bina, ca^-n ta^y)", "Tra'i ca^y (chuo^'i, cam, ta'o)", "Ca' gia-u omega-3 (ca' ho^-i, ca' thu)", "Ha.t kho^ng muo^'i (ha.nh nha^n, o'c cho')">>,
        tranh_an |-> <<"Muo^'i a(n, ma('m to^m, nu+o+'c ma('m", "DDo^- ho^.p, ddo^- a(n sa(~n", "Thi.t hun kho'i, xu'c xi'ch", "Pho^ mai, ba'nh mi- ma(.n">>,
        luu_y |-> "Ha.n che^' muo^'i du+o+'i 5g/nga-y, ta^.p the^? du.c nhe. nha-ng, gia?m stress"]>>,
     <<BenhTimMach,
       [nguyen_tac_chinh |-> "Gia?m cholesterol xa^'u, ta(ng omega-3, kie^?m soa't ca^n na(.ng",
        nen_an |-> <<"Ca' be'o (ca' ho^-i, ca' thu, ca' tri'ch)", "Da^-u olive, da^-u canola", "Ha.t va- qua? kho^", "Ye^'n ma.ch, dda^.u">>,
        tranh_an |-> <<"Thi.t ddo? nhie^-u mo+~", "DDo^- chie^n ra'n", "Bo+, kem, pho^ mai be'o", "DDo^- ngo.t, ba'nh kem">>,
        luu_y |-> "Ta^.p aerobic dde^-u dda(.n, kho^ng hu't thuo^'c, ha.n che^' ru+o+.u bia"]>> >>

\* Keys: benh_ly is "bệnh_lý", tu_van_tong_quat is "tư_vấn_tổng_quát",
\* khuyen_nghi is "khuyến_nghị" (the text around the lower-cased disease).
simple_get_general_advice(d) ==
  LET advice == DictGet(advice_map, d)
  IN IF advice = None THEN simple_create_error_response(d)
     ELSE [benh_ly |-> d,
           tu_van_tong_quat |-> advice[1],
           khuyen_nghi |-> <<"Ne^n tham kha?o y' kie^'n ba'c si~ chuye^n khoa ", Lower(d),
                             " dde^? co' che^' ddo^. a(n phu- ho+.p nha^'t">>]

\* health_advisor_simple.HealthAdvisorTool._analyze_food_for_disease,
\* nutrition_db in its order (2.7 and 0.3 written 3 and 0, as in food_db)
simple_nutrition_db ==
  << << <<"p", "h", "o+?", " ", "b", "o-">>,
        [calories |-> Some(450), protein |-> Some(30), carbs |-> Some(45), fat |-> Some(15), sodium |-> Some(1200)] >>,
     << <<"c", "o+", "m", " ", "t", "r", "a('", "n", "g">>,
        [calories |-> Some(130), protein |-> Some(3), carbs |-> Some(28), fat |-> Some(0), sodium |-> Some(1)] >>,
     << <<"b", "a'", "n", "h", " ", "m", "i-">>,
        [calories |-> Some(250), protein |-> Some(8), carbs |-> Some(40), fat |-> Some(8), sodium |-> Some(400)] >>,
     << <<"g", "o?", "i", " ", "c", "u", "o^'", "n">>,
        [calories |-> Some(60), protein |-> Some(3), carbs |-> Some(12), fat |-> Some(1), sodium |-> Some(200)] >>,
     << <<"b", "u'", "n", " ", "b", "o-", " ", "h", "u", "e^'">>,
        [calories |-> Some(500), protein |-> Some(25), carbs |-> Some(50), fat |-> Some(20), sodium |-> Some(1500)] >>,
     << <<"c", "o+", "m", " ", "t", "a^'", "m">>,
        [calories |-> Some(650), protein |-> Some(35), carbs |-> Some(70), fat |-> Some(25), sodium |-> Some(800)] >> >>

\* health_advisor_simple.HealthAdvisorTool._get_food_analysis.  Keys: diem_so
\* is "điểm_số", muc_do_an_toan is "mức_độ_an_toàn", ly_do is "lý_do" (the
\* label, the number, the unit and the level word of the formatted text).
get_food_analysis(n, d) ==
  IF d = TieuDuong THEN
    LET carbs == Get(n, "carbs", Some(0))[1]
    IN [diem_so |-> IF carbs <= 20 THEN 80 ELSE IF carbs <= 40 THEN 60 ELSE 30,
        muc_do_an_toan |-> IF carbs <= 20 THEN "An toa-n"
                           ELSE IF carbs <= 40 THEN "Cha^'p nha^.n ddu+o+.c"
                           ELSE "Ca^-n ha.n che^'",
        ly_do |-> <<"Carbs: ", carbs, "g - ",
                    IF carbs <= 20 THEN "Tha^'p" ELSE IF carbs > 40 THEN "Cao" ELSE "Trung bi-nh">>]
  ELSE IF d = BeoPhi THEN
    LET calories == Get(n, "calories", Some(0))[1]
    IN [diem_so |-> IF calories <= 200 THEN 80 ELSE IF calories <= 400 THEN 60 ELSE 30,
        muc_do_an_toan |-> IF calories <= 200 THEN "To^'t cho gia?m ca^n"
                           ELSE IF calories <= 400 THEN "A(n vu+-a pha?i"
                           ELSE "Ha.n che^'",
        ly_do |-> <<"Calories: ", calories, " - ",
                    IF calories <= 200 THEN "Tha^'p" ELSE IF calories > 400 THEN "Cao" ELSE "Trung bi-nh">>]
  ELSE IF d = HuyetApCao THEN
    LET sodium == Get(n, "sodium", Some(0))[1]
    IN [diem_so |-> IF sodium <= 300 THEN 80 ELSE IF sodium <= 600 THEN 50 ELSE 20,
        muc_do_an_toan |-> IF sodium <= 300 THEN "An toa-n"
                           ELSE IF sodium <= 600 THEN "Ca^-n ca^?n tha^.n"
                           ELSE "Nguy hie^?m",
        ly_do |-> <<"Natrium: ", sodium, "mg - ",
                    IF sodium <= 300 THEN "Tha^'p" ELSE IF sodium > 600 THEN "Cao" ELSE "Trung bi-nh">>]
  ELSE [diem_so |-> 50, muc_do_an_toan |-> "Trung bi-nh"]

\* health_advisor_simple.HealthAdvisorTool._get_recommendations
get_recommendations(n, d) ==
  IF d = TieuDuong THEN
    (IF Get(n, "carbs", Some(0))[1] > 40
     THEN <<"Gia?m kha^?u pha^-n xuo^'ng 1/2", "Ke^'t ho+.p vo+'i rau xanh dde^? cha^.m ha^'p thu. ddu+o+-ng">>
     ELSE <<>>)
    \o <<"A(n sau khi ta^.p the^? du.c nhe.">>
  ELSE IF d = BeoPhi THEN
    (IF Get(n, "calories", Some(0))[1] > 400
     THEN <<"Chia tha-nh 2 bu+~a nho?", "Bo? pha^-n nu+o+'c du-ng dde^? gia?m calo">>
     ELSE <<>>)
    \o <<"Ta(ng cu+o+-ng rau xanh">>
  ELSE IF d = HuyetApCao THEN
    (IF Get(n, "sodium", Some(0))[1] > 600
     THEN <<"Kho^ng the^m muo^'i/nu+o+'c ma('m", "Ru+?a sa.ch dde^? bo+'t ma(.n">>
     ELSE <<>>)
    \o <<"Ke^'t ho+.p vo+'i tra'i ca^y gia-u kali">>
  ELSE <<>>

\* health_advisor_simple.HealthAdvisorTool._analyze_food_for_disease.  Keys:
\* mon_an is "món_ăn", ket_qua is "kết_quả", goi_y is "gợi_ý", benh_ly is
\* "bệnh_lý", thong_tin_dinh_duong is "thông_tin_dinh_dưỡng", phan_tich is
\* "phân_tích", khuyen_nghi is "khuyến_nghị".
simple_analyze_food_for_disease(name, d) ==
  LET found == first_match(simple_nutrition_db, Lower(name))
  IN IF found = None THEN
       [mon_an |-> name,
        ket_qua |-> "Kho^ng ti-m tha^'y tho^ng tin dinh du+o+~ng",
        goi_y |-> "Vui lo-ng cung ca^'p tho^ng tin chi tie^'t ho+n ve^- mo'n a(n"]
     ELSE
       [mon_an |-> name,
        benh_ly |-> d,
        thong_tin_dinh_duong |-> found[1],
        phan_tich |-> get_food_analysis(found[1], d),
        khuyen_nghi |-> get_recommendations(found[1], d)]

\* health_advisor_simple.HealthAdvisorTool._run
simple_run(text, name) ==
  LET standardized_disease == simple_normalize_disease_name(text)
  IN IF standardized_disease = None THEN simple_create_error_response(text)
     ELSE IF name /= None /\ name[1] /= <<>>
     THEN simple_analyze_food_for_disease(name[1], standardized_disease[1])
     ELSE simple_get_general_advice(standardized_disease[1])

-----------------------------------------------------------------------------
(* DBQueryTool (db_query_tool.py) *)

\* DBQueryTool._get_nutrition_estimate, nutrition_db in its order
estimate_nutrition_db ==
  << << <<"p", "h", "o+?", " ", "b", "o-">>,
        [nutrition_per_serving |->
           [calories |-> 450, protein |-> 30, carbs |-> 45, fat |-> 15, fiber |-> 3, sodium |-> 1200]] >>,
     << <<"c", "o+", "m", " ", "t", "r", "a('", "n", "g">>,
        [nutrition_per_serving |->
           [calories |-> 130, protein |-> 3, carbs |-> 28, fat |-> 0, fiber |-> 0, sodium |-> 1]] >>,
     << <<"b", "a'", "n", "h", " ", "m", "i-">>,
        [nutrition_per_serving |->
           [calories |-> 250, protein |-> 8, carbs |-> 40, fat |-> 8, fiber |-> 2, sodium |-> 400]] >> >>

\* DBQueryTool._get_nutrition_estimate
get_nutrition_estimate(name) ==
  LET found == first_match(estimate_nutrition_db, Lower(name))
  IN IF found /= None THEN found[1]
     ELSE [nutrition_per_serving |->
             [calories |-> 300, protein |-> 15, carbs |-> 35, fat |-> 10, fiber |-> 2, sodium |-> 500],
           note |-> "Estimated values"]

\* DBQueryTool._search_food, foods
search_foods ==
  << <<"P", "h", "o+?", " ", "b", "o-">>,
     <<"C", "o+", "m", " ", "t", "r", "a('", "n", "g">>,
     <<"B", "a'", "n", "h", " ", "m", "i-">>,
     <<"G", "o?", "i", " ", "c", "u", "o^'", "n">>,
     <<"B", "u'", "n", " ", "b", "o-", " ", "H", "u", "e^'">>,
     <<"C", "o+", "m", " ", "t", "a^'", "m">>,
     <<"C", "h", "a?", " ", "c", "a'">>,
     <<"N", "e", "m", " ", "n", "u+", "o+'", "n", "g">> >>

\* DBQueryTool._search_food
search_food(name) ==
  LET matches == SelectSeq(search_foods, LAMBDA food : fuzzy_match(Lower(name), Lower(food)))
  IN [query |-> name, matches |-> Prefix(matches, 5), total |-> Len(matches)]

\* DBQueryTool._run
db_query_run(query_type, name) ==
  IF query_type = "nutrition_estimate" /\ name /= None /\ name[1] /= <<>>
  THEN get_nutrition_estimate(name[1])
  ELSE IF query_type = "food_search" /\ name /= None /\ name[1] /= <<>>
  THEN search_food(name[1])
  ELSE [error |-> "Invalid query parameters"]

-----------------------------------------------------------------------------
(* Inputs *)

\* how many blanks may surround a disease text
MaxPad == 1

CaloriesValues == {-100, 0, 200, 300, 400, 450, 650}
ProteinValues == {-1, 9, 10, 14, 15, 30}
CarbsValues == {-1, 30, 45, 50, 70}
FatValues == {-1, 10, 15, 20, 25}
SodiumValues == {1200}
CategoryValues == {Rau, TraiCay, Ca, Pho}

\* a key that is absent, null, or holds one of the values
Opt(key, values) ==
  {EmptyDict} \cup {key :> None} \cup {key :> Some(v) : v \in values}

\* the nutrition dicts handed to the scorer
NutritionInputs ==
  {a @@ b @@ c @@ d @@ e @@ f :
     a \in Opt("calories", CaloriesValues),
     b \in Opt("protein", ProteinValues),
     c \in Opt("carbs", CarbsValues),
     d \in Opt("fat", FatValues),
     e \in {EmptyDict} \cup {"category" :> Some(v) : v \in CategoryValues},
     f \in {EmptyDict} \cup {"sodium" :> Some(v) : v \in SodiumValues}}

Diseases == {TieuDuong, BeoPhi, HuyetApCao}

Blanks(k) == [i \in 1..k |-> " "]

\* texts that are not keys of the synonym table
OtherTexts ==
  { <<"u", "n", "g", " ", "t", "h", "u+">>,
    <<"b", "e^.", "n", "h", " ", "l", "a.">>,
    <<"t", "i", "m", " ", "m", "a.", "c", "h">>,
    <<"b", "e^.", "n", "h", " ", "t", "i", "m">>,
    <<"b", "e^.", "n", "h", " ", "t", "i", "e^?", "u", " ", "dd", "u+", "o+-", "n", "g">>,
    <<"h", "u", "y", "e^'", "t", " ", "a'", "p", " ", "t", "h", "a^'", "p">>,
    <<"t", "i", "e^?", "u", "dd", "u+", "o+-", "n", "g">>,
    <<>> }

BaseTexts == DictKeys(DISEASE_MAP) \cup OtherTexts

\* each base text as written, in upper case, and padded with blanks
DiseaseTexts ==
  {Blanks(l) \o t \o Blanks(r) :
     t \in BaseTexts \cup {Upper(b) : b \in BaseTexts},
     l \in 0..MaxPad, r \in 0..MaxPad}

\* how many rows a table of the database holds
MaxRows == 2

\* rows the foods table may hold
FoodRows ==
  { [name |-> <<"P", "h", "o+?", " ", "b", "o-", " ", "t", "a'", "i">>,
     category |-> Some(Pho), calories_per_100g |-> 180,
     high_glycemic |-> FALSE, high_sodium |-> TRUE, image_url |-> None,
     nutrients |-> << [name |-> <<"P", "r", "o", "t", "e", "i", "n">>, amount |-> Some(12)],
                      [name |-> <<"C", "a", "r", "b", "o", "h", "y", "d", "r", "a", "t", "e">>, amount |-> Some(20)],
                      [name |-> <<"T", "o", "t", "a", "l", " ", "F", "a", "t">>, amount |-> Some(5)],
                      [name |-> <<"S", "o", "d", "i", "u", "m">>, amount |-> Some(400)] >>],
    [name |-> <<"C", "a", "n", "h", " ", "r", "a", "u">>,
     category |-> Some(Rau), calories_per_100g |-> 40,
     high_glycemic |-> FALSE, high_sodium |-> FALSE, image_url |-> None,
     nutrients |-> << [name |-> <<"P", "r", "o", "t", "e", "i", "n">>, amount |-> None] >>],
    [name |-> <<"C", "o+", "m", " ", "c", "h", "i", "e^", "n">>,
     category |-> None, calories_per_100g |-> -50,
     high_glycemic |-> TRUE, high_sodium |-> TRUE, image_url |-> None,
     nutrients |-> << [name |-> <<"C", "a", "r", "b", "o", "h", "y", "d", "r", "a", "t", "e">>, amount |-> Some(-5)] >>],
    [name |-> <<"N", "u+", "o+'", "c", " ", "l", "o.", "c">>,
     category |-> None, calories_per_100g |-> 0,
     high_glycemic |-> FALSE, high_sodium |-> FALSE, image_url |-> None,
     nutrients |-> <<>>] }

\* rows the medical_conditions table may hold
ConditionRows ==
  { [name |-> TieuDuongType2, code |-> "E11", description |-> Some([len |-> 301, text |-> "mo^ ta? da-i"]),
     recommended_diet_type |-> None, warnings |-> None,
     recommended_calories_multiplier |-> None, nutrient_limits |-> EmptyDict],
    [name |-> <<"B", "e'", "o", " ", "p", "h", "i-", " ", "dd", "o^.", " ", "1">>,
     code |-> "E66", description |-> None,
     recommended_diet_type |-> None, warnings |-> Some([len |-> 5, text |-> "A(n i't"]),
     recommended_calories_multiplier |-> Some(1), nutrient_limits |-> EmptyDict],
    [name |-> CaoHuyetAp, code |-> "I10", description |-> None,
     recommended_diet_type |-> None, warnings |-> None,
     recommended_calories_multiplier |-> None, nutrient_limits |-> EmptyDict] }

Tables(rows) == {t \in SUBSET rows : Cardinality(t) <= MaxRows}

\* the food names a caller passes: absent, blank, keys of the built-in table,
\* parts of keys, names that hold a key, names of database rows, unknown names
FoodNames ==
  {None, Some(<<>>), Some(<<" ">>)}
  \cup {Some(food_db[i][1]) : i \in 1..Len(food_db)}
  \cup { Some(Com),
         Some(<<"m", "i-">>),
         Some(<<"P", "h", "o+?", " ", "B", "o-">>),
         Some(<<"p", "h", "o+?", " ", "b", "o-", " ", "t", "a'", "i">>),
         Some(<<"c", "a", "n", "h", " ", "r", "a", "u">>),
         Some(<<"c", "o+", "m", " ", "c", "h", "i", "e^", "n">>),
         Some(<<"m", "o'", "n", " ", "k", "h", "o^", "n", "g", " ", "t", "o^-", "n", " ", "t", "a.", "i">>) }

QueryTypes == {"nutrition_estimate", "food_search", "other"}

PortionSizes == {"1 pha^-n", "2 pha^-n"}

\* the disease texts passed to a whole advisor call
RunTexts ==
  BaseTexts
  \cup {Blanks(l) \o t \o Blanks(r) :
          t \in OtherTexts \cup {Upper(b) : b \in OtherTexts} \cup {Lower(TieuDuong), Upper(BeoPhi)},
          l \in 0..MaxPad, r \in 0..MaxPad}

-----------------------------------------------------------------------------
(* SimpleFoodAgent (src/app/agents/food_advisor_agent.py)                    *)
(*                                                                           *)
(* A string the agent builds is a sequence of parts in the order an f-string *)
(* or join puts them: [t |-> "s", v |-> fixed text], [t |-> "q", v |-> text  *)
(* as characters], [t |-> "n", v |-> number], [t |-> "l", v |-> list slice], *)
(* [t |-> "json", v |-> the dict json.dumps wrote].  Emoji and line breaks   *)
(* of the fixed texts are left out.  A call that may raise gives             *)
(* [raised |-> TRUE, error |-> str(e)] or [raised |-> FALSE, value |-> v].   *)

S(text) == [t |-> "s", v |-> text]
Q(text) == [t |-> "q", v |-> text]
Raised(error) == [raised |-> TRUE, error |-> error]
Returned(value) == [raised |-> FALSE, value |-> value]

\* re.search of an alternation of fixed words
Search(words, q) == \E w \in words : IsSubstr(w, q)

\* re.search of (a|b).+(c|d): a first word, at least one character, a second word
SearchThen(first, second, q) ==
  \E a \in first, b \in second :
    \E i \in 1..Len(q), j \in 1..Len(q) :
      /\ i + Len(a) - 1 <= Len(q)
      /\ SubSeq(q, i, i + Len(a) - 1) = a
      /\ j >= i + Len(a) + 1
      /\ j + Len(b) - 1 <= Len(q)
      /\ SubSeq(q, j, j + Len(b) - 1) = b

diabetes_words == { <<"t", "i", "e^?", "u", " ", "dd", "u+", "o+-", "n", "g">>, <<"dd", "a'", "i", " ", "t", "h", "a'", "o", " ", "dd", "u+", "o+-", "n", "g">>, <<"d", "i", "a", "b", "e", "t", "e", "s">> }
obesity_words == { <<"b", "e'", "o", " ", "p", "h", "i-">>, <<"t", "h", "u+-", "a", " ", "c", "a^", "n">>, <<"o", "b", "e", "s", "i", "t", "y">> }
hypertension_words == { <<"h", "u", "y", "e^'", "t", " ", "a'", "p", " ", "c", "a", "o">>, <<"t", "a(", "n", "g", " ", "h", "u", "y", "e^'", "t", " ", "a'", "p">>, <<"h", "y", "p", "e", "r", "t", "e", "n", "s", "i", "o", "n">> }

health_patterns(q) ==
  \/ Search(diabetes_words, q)
  \/ Search(obesity_words, q)
  \/ Search(hypertension_words, q)
  \/ SearchThen({ <<"p", "h", "a^", "n", " ", "t", "i'", "c", "h">>, <<"dd", "a'", "n", "h", " ", "g", "i", "a'">> }, { <<"m", "o'", "n">>, <<"t", "h", "u+'", "c", " ", "a(", "n">>, <<"dd", "o^-", " ", "a(", "n">> }, q)
  \/ SearchThen({ <<"a(", "n">>, <<"u", "o^'", "n", "g">> }, { <<"c", "o'", " ", "dd", "u+", "o+.", "c", " ", "k", "h", "o^", "n", "g">>, <<"dd", "u+", "o+.", "c", " ", "k", "h", "o^", "n", "g">>, <<"c", "o'", " ", "t", "o^'", "t">> }, q)
  \/ SearchThen({ <<"t", "u+", " ", "v", "a^'", "n">>, <<"k", "h", "u", "y", "e^", "n">> }, { <<"s", "u+'", "c", " ", "k", "h", "o?", "e">>, <<"b", "e^.", "n", "h">> }, q)

recipe_patterns(q) ==
  \/ Search({ <<"c", "o^", "n", "g", " ", "t", "h", "u+'", "c">>, <<"c", "a'", "c", "h", " ", "l", "a-", "m">>, <<"c", "a'", "c", "h", " ", "n", "a^'", "u">> }, q)
  \/ SearchThen({ <<"g", "o+.", "i", " ", "y'">>, <<"dd", "e^-", " ", "x", "u", "a^'", "t">> }, { <<"m", "o'", "n">>, <<"c", "o^", "n", "g", " ", "t", "h", "u+'", "c">> }, q)
  \/ SearchThen({ <<"t", "o^", "i", " ", "c", "o'">>, <<"c", "o'", " ", "s", "a(~", "n">> }, { <<"n", "g", "u", "y", "e^", "n", " ", "l", "i", "e^.", "u">>, <<"t", "h", "i.", "t">>, <<"r", "a", "u">>, <<"c", "a'">> }, q)
  \/ SearchThen({ <<"l", "a-", "m", " ", "g", "i-">>, <<"n", "a^'", "u", " ", "g", "i-">> }, { <<"v", "o+'", "i">>, <<"t", "u+-">> }, q)
  \/ SearchThen({ <<"m", "o'", "n", " ", "a(", "n">>, <<"t", "h", "u+'", "c", " ", "a(", "n">> }, { <<"t", "u+-">>, <<"v", "o+'", "i">> }, q)

vision_patterns(q) ==
  \/ SearchThen({ <<"p", "h", "a^", "n", " ", "t", "i'", "c", "h">>, <<"n", "h", "a^.", "n", " ", "d", "i", "e^.", "n">>, <<"x", "e", "m">> }, { <<"a?", "n", "h">>, <<"h", "i-", "n", "h">>, <<"b", "u+'", "c">> }, q)
  \/ Search({ <<"a?", "n", "h">>, <<"h", "i-", "n", "h">>, <<"p", "h", "o", "t", "o">>, <<"i", "m", "a", "g", "e">> }, q)
  \/ Search({ <<"m", "o'", "n", " ", "n", "a-", "y">>, <<"dd", "a^", "y", " ", "l", "a-", " ", "m", "o'", "n", " ", "g", "i-">> }, q)

food_words ==
  << <<"p", "h", "o+?">>, <<"b", "u'", "n">>, <<"c", "o+", "m">>, <<"b", "a'", "n", "h">>, <<"t", "h", "i.", "t">>, <<"c", "a'">>, <<"r", "a", "u">>, <<"t", "r", "u+'", "n", "g">>, <<"s", "u+~", "a">>, <<"c", "h", "a?">> >>

ingredient_words ==
  << <<"t", "h", "i.", "t", " ", "h", "e", "o">>, <<"t", "h", "i.", "t", " ", "b", "o-">>, <<"g", "a-">>, <<"c", "a'">>, <<"t", "o^", "m">>, <<"r", "a", "u", " ", "m", "u", "o^'", "n", "g">>, <<"c", "a?", "i">>, <<"c", "a-", " ", "c", "h", "u", "a">>, <<"h", "a-", "n", "h">>, <<"t", "o?", "i">> >>

\* the words of a list that occur in q, in list order
RECURSIVE WordsIn(_, _)
WordsIn(words, q) ==
  IF words = <<>> THEN <<>>
  ELSE (IF IsSubstr(Head(words), q) THEN <<Head(words)>> ELSE <<>>) \o WordsIn(Tail(words), q)

TongQuat == <<"t", "o^?", "n", "g", " ", "q", "u", "a'", "t">>

\* SimpleFoodAgent._should_use_tool: the tool name and its parameters, or
\* None and None
should_use_tool(query) ==
  LET query_lower == Lower(query)
      disease ==
        IF Search(diabetes_words, query_lower) THEN <<"t", "i", "e^?", "u", " ", "dd", "u+", "o+-", "n", "g">>
        ELSE IF Search(obesity_words, query_lower) THEN <<"b", "e'", "o", " ", "p", "h", "i-">>
        ELSE IF Search(hypertension_words, query_lower) THEN <<"h", "u", "y", "e^'", "t", " ", "a'", "p", " ", "c", "a", "o">>
        ELSE TongQuat
      foods == WordsIn(food_words, query_lower)
      ingredients == WordsIn(ingredient_words, query_lower)
  IN IF health_patterns(query_lower) THEN
       [tool_name |-> Some("health_advisor_tool"),
        params |-> Some(("disease" :> disease)
                        @@ (IF foods /= <<>> THEN "food_name" :> Head(foods) ELSE EmptyDict))]
     ELSE IF recipe_patterns(query_lower) THEN
       [tool_name |-> Some("recipe_generator_tool"),
        params |-> Some([ingredients |-> IF ingredients /= <<>> THEN ingredients
                                         ELSE << <<"n", "g", "u", "y", "e^", "n", " ", "l", "i", "e^.", "u", " ", "c", "o'", " ", "s", "a(~", "n">> >>,
                         dietary_restrictions |-> None,
                         region_preference |-> Some("vietnamese"),
                         meal_type |-> None,
                         max_calories |-> None])]
     ELSE IF vision_patterns(query_lower) THEN
       [tool_name |-> Some("vision_tool"),
        params |-> Some([image_description |-> query])]
     ELSE [tool_name |-> None, params |-> None]

\* what a tool returns, as the agent sees it: a text that does not look like
\* a JSON object, the dump of a dict, or a text in braces that is no JSON
Text(parts) == [kind |-> "text", parts |-> parts]
Object(data) == [kind |-> "object", parts |-> <<[t |-> "json", v |-> data]>>]
Malformed(parts) == [kind |-> "malformed", parts |-> parts]

\* SimpleFoodAgent._call_tool with the tools of tool_map; outcome is what
\* tool._run does with the parameters
call_tool(tool_map, tool_name, params, outcome) ==
  IF tool_name \notin tool_map
  THEN Text(<<S("Kho^ng ti-m tha^'y tool "), S(tool_name)>>)
  ELSE IF outcome.raised
  THEN Text(<<S("Lo^~i khi go.i tool: "), S(outcome.error)>>)
  ELSE outcome.value

\* variant: the recipe tool is given the health branch's default disease
invocations_default(query, tool_map) ==
  LET route == should_use_tool(query)
      tool_name == route.tool_name[1]
      params == route.params[1]
  IN IF route.tool_name /= None /\ route.params /= None THEN
       IF tool_name \notin tool_map THEN <<>>
       ELSE IF tool_name = "health_advisor_tool" THEN
         <<[callee |-> tool_name,
            kwargs |-> [disease |-> Get(params, "disease", <<>>),
                        food_name |-> IF "food_name" \in DOMAIN params
                                      THEN Some(params["food_name"]) ELSE None,
                        portion_size |-> Get(params, "portion_size", "1 pha^-n")]]>>
       ELSE IF tool_name = "recipe_generator_tool" THEN
         <<[callee |-> tool_name,
            kwargs |-> [ingredients |-> Get(params, "ingredients", <<>>),
                        disease |-> Get(params, "disease", Some(TongQuat)),
                        dietary_restrictions |-> Get(params, "dietary_restrictions", None),
                        region_preference |-> Get(params, "region_preference", None),
                        meal_type |-> Get(params, "meal_type", None),
                        max_calories |-> Get(params, "max_calories", None)]]>>
       ELSE <<[callee |-> tool_name,
               kwargs |-> [image_description |-> Get(params, "image_description", <<>>)]]>>
     ELSE <<[callee |-> "llm", kwargs |-> [messages |-> <<"system_prompt", query>>]]>>

\* the calls one chat makes on its tools and on the LLM, with the keyword
\* arguments of each: _call_tool's tool._run(...), or chat's self.llm.invoke
invocations(query, tool_map) ==
  LET route == should_use_tool(query)
      tool_name == route.tool_name[1]
      params == route.params[1]
  IN IF route.tool_name /= None /\ route.params /= None THEN
       IF tool_name \notin tool_map THEN <<>>
       ELSE IF tool_name = "health_advisor_tool" THEN
         <<[callee |-> tool_name,
            kwargs |-> [disease |-> Get(params, "disease", <<>>),
                        food_name |-> IF "food_name" \in DOMAIN params
                                      THEN Some(params["food_name"]) ELSE None,
                        portion_size |-> Get(params, "portion_size", "1 pha^-n")]]>>
       ELSE IF tool_name = "recipe_generator_tool" THEN
         <<[callee |-> tool_name,
            kwargs |-> [ingredients |-> Get(params, "ingredients", <<>>),
                        disease |-> Get(params, "disease", None),
                        dietary_restrictions |-> Get(params, "dietary_restrictions", None),
                        region_preference |-> Get(params, "region_preference", None),
                        meal_type |-> Get(params, "meal_type", None),
                        max_calories |-> Get(params, "max_calories", None)]]>>
       ELSE <<[callee |-> tool_name,
               kwargs |-> [image_description |-> Get(params, "image_description", <<>>)]]>>
     ELSE <<[callee |-> "llm", kwargs |-> [messages |-> <<"system_prompt", query>>]]>>


\* json.loads on what the tool returned
json_loads(tool_result) ==
  IF tool_result.kind = "object" THEN Returned(tool_result.parts[1].v) ELSE Raised("Expecting property name enclosed in double quotes: line 1 column 2 (char 1)")

\* the numbered or bulleted lines of a for loop over seq[:k]
Lines(seq, k) == [t |-> "l", v |-> Prefix(seq, k)]

Present(data, key) == key \in DOMAIN data /\ data[key] /= None /\ data[key] /= <<>>

\* SimpleFoodAgent._format_health_advice
format_health_advice(data) ==
  IF "loi" \in DOMAIN data THEN
    IF data.loi = None THEN Raised("'NoneType' object has no attribute 'lower'")
    ELSE Returned(<<S("Cha-o ba.n! To^i hie^?u ba.n ddang quan ta^m dde^'n va^'n dde^- na-y. Tuy nhie^n, "),
                    Q(Lower(data.loi)), S(". ")>>
                  \o (IF "goi_y" \in DOMAIN data THEN <<S(data.goi_y)>> ELSE <<>>)
                  \o <<S(" Ba.n co' the^? ho?i to^i ve^- nhu+~ng va^'n dde^- kha'c kho^ng?")>>)
  ELSE
    Returned(
      <<S("Cha-o ba.n! To^i ra^'t vui ddu+o+.c ho^~ tro+. ba.n ve^- va^'n dde^- dinh du+o+~ng na-y.")>>
      \o (IF "benh" \in DOMAIN data
          THEN <<S("**Ve^- ti-nh tra.ng "), Q(data.benh), S(":**")>> ELSE <<>>)
      \o (IF "thong_tin_mon_an" \in DOMAIN data THEN
            <<S("**Pha^n ti'ch mo'n "), Q(data.thong_tin_mon_an.ten), S(":**"),
              S("- **Mu+'c ddo^. phu- ho+.p**: "),
              (IF "muc_do_an_toan" \in DOMAIN data THEN S(data.muc_do_an_toan)
               ELSE S("Ca^-n dda'nh gia' the^m")),
              S("- **DDie^?m dda'nh gia'**: "),
              (IF "diem_so" \in DOMAIN data THEN [t |-> "n", v |-> data.diem_so] ELSE S("N/A")),
              S("/100 ddie^?m")>>
            \o (IF Present(data, "loi_khuyen_cu_the")
                THEN <<S("**Lo+-i khuye^n tu+- to^i:**"), Lines(data.loi_khuyen_cu_the, 3)>> ELSE <<>>)
            \o (IF Present(data, "cach_dieu_chinh")
                THEN <<S("**Me.o ddie^-u chi?nh thu+.c te^':**"), Lines(data.cach_dieu_chinh, 2)>> ELSE <<>>)
          ELSE
            (IF "loi_khuyen_ngan_gon" \in DOMAIN data
             THEN <<S("**Nguye^n ta('c chi'nh:**"), S(data.loi_khuyen_ngan_gon)>> ELSE <<>>)
            \o (IF Present(data, "nen_an_nhieu")
                THEN <<S("**Thu+.c pha^?m ba.n ne^n u+u tie^n:**"), Lines(data.nen_an_nhieu, 5)>> ELSE <<>>)
            \o (IF Present(data, "han_che_nghiem_ngat")
                THEN <<S("**Thu+.c pha^?m ne^n ha.n che^':**"), Lines(data.han_che_nghiem_ngat, 5)>> ELSE <<>>)
            \o (IF "calo_toi_da_moi_bua" \in DOMAIN data
                THEN <<S("**Khuye^'n nghi. calo:** To^'i dda "),
                       [t |-> "n", v |-> data.calo_toi_da_moi_bua], S(" kcal/bu+~a")>> ELSE <<>>))
      \o <<S("**Lu+u y' quan tro.ng:** Lo+-i khuye^n na-y mang ti'nh cha^'t tham kha?o va- kho^ng thay the^' lo+-i khuye^n tu+- ba'c si~ hoa(.c chuye^n gia dinh du+o+~ng la^m sa-ng. Ba.n ne^n tham kha?o y' kie^'n chuye^n gia dde^? co' ke^' hoa.ch dinh du+o+~ng phu- ho+.p nha^'t."),
           S("**DDo^.ng vie^n:** Vie^.c quan ta^m dde^'n che^' ddo^. a(n uo^'ng la- bu+o+'c dda^-u tuye^.t vo+-i cho su+'c kho?e! Ba.n co' muo^'n to^i tu+ va^'n the^m ve^- mo'n a(n na-o kha'c hoa(.c ca'ch che^' bie^'n phu- ho+.p kho^ng?")>>)

\* SimpleFoodAgent._format_recipe
format_recipe(data) ==
  IF "error" \in DOMAIN data THEN
    Returned(<<S("Cha-o ba.n! To^i hie^?u ba.n muo^'n co' co^ng thu+'c tu+- nhu+~ng nguye^n lie^.u co' sa(~n. Tuy nhie^n, hie^.n ta.i to^i ga(.p chu't kho' kha(n ky~ thua^.t: "),
               S(data.error),
               S(". Ba.n co' the^? mo^ ta? chi tie^'t ho+n ve^- nguye^n lie^.u va- so+? thi'ch dde^? to^i tu+ va^'n tru+.c tie^'p kho^ng?")>>)
  ELSE
    Returned(
      <<S("Tuye^.t vo+-i! To^i ra^'t thi'ch vie^.c ba.n muo^'n tu+. tay na^'u nu+o+'ng. DDa^y la- mo'n to^i go+.i y' cho ba.n:")>>
      \o (IF "recipe_name" \in DOMAIN data
          THEN <<S("**Mo'n a(n: "), S(data.recipe_name), S("**")>> ELSE <<>>)
      \o (IF Present(data, "ingredients")
          THEN <<S("**Nguye^n lie^.u ca^-n chua^?n bi.:**"), Lines(data.ingredients, 8)>> ELSE <<>>)
      \o (IF Present(data, "instructions")
          THEN <<S("**Ca'ch thu+.c hie^.n tu+-ng bu+o+'c:**"), Lines(data.instructions, 6)>> ELSE <<>>)
      \o (IF "cooking_time" \in DOMAIN data \/ "servings" \in DOMAIN data
          THEN <<S("**Tho^ng tin:** ")>>
               \o (IF "cooking_time" \in DOMAIN data
                   THEN <<[t |-> "n", v |-> data.cooking_time], S(" phu't")>> ELSE <<>>)
               \o (IF "servings" \in DOMAIN data
                   THEN <<[t |-> "n", v |-> data.servings], S(" ngu+o+-i a(n")>> ELSE <<>>)
          ELSE <<>>)
      \o (IF Present(data, "health_benefits")
          THEN <<S("**Lo+.i i'ch su+'c kho?e:**"), Lines(data.health_benefits, 3)>> ELSE <<>>)
      \o <<S("**Lu+u y':** Co^ng thu+'c na-y mang ti'nh cha^'t tham kha?o. Ne^'u ba.n co' be^.nh ly' dda(.c bie^.t, ha~y tham kha?o y' kie^'n ba'c si~ ve^- che^' ddo^. a(n phu- ho+.p."),
           S("**Chu'c mu+-ng ba.n:** Vie^.c tu+. na^'u a(n la- ca'ch tuye^.t vo+-i dde^? kie^?m soa't dinh du+o+~ng! Ba.n co' ca^-n to^i tu+ va^'n the^m ve^- ca'ch ddie^-u chi?nh mo'n na-y cho phu- ho+.p vo+'i ti-nh tra.ng su+'c kho?e cu. the^? kho^ng?")>>)

\* SimpleFoodAgent._format_vision_result
format_vision_result(data) ==
  Returned(<<S("To^i tha^'y trong a?nh co' ve? la- mo'n a(n Vie^.t Nam. Tuy nhie^n, dde^? pha^n ti'ch chi'nh xa'c ho+n, ba.n co' the^? mo^ ta? chi tie^'t mo'n a(n hoa(.c ho?i to^i ve^- dinh du+o+~ng cu?a mo'n cu. the^? na-o ddo' nhe'!")>>)

\* the try block of SimpleFoodAgent._format_tool_result (lines 185-198)
format_attempt(tool_name, tool_result) ==
  IF tool_result.kind \in {"object", "malformed"} THEN
    LET data == json_loads(tool_result)
    IN IF data.raised THEN data
       ELSE IF tool_name = "health_advisor_tool" THEN format_health_advice(data.value)
       ELSE IF tool_name = "recipe_generator_tool" THEN format_recipe(data.value)
       ELSE format_vision_result(data.value)
  ELSE Returned(<<S("Du+.a tre^n tho^ng tin to^i co':")>> \o tool_result.parts)

\* SimpleFoodAgent._format_tool_result: a failure of the try block is caught
\* by the bare except of line 200
format_tool_result(tool_name, tool_result) ==
  LET attempt == format_attempt(tool_name, tool_result)
  IN IF attempt.raised
     THEN <<S("To^i dda~ ti-m hie^?u va- dda^y la- tho^ng tin:")>> \o tool_result.parts
     ELSE attempt.value

\* SimpleFoodAgent.chat: tool is what the routed tool's _run does, llm what
\* self.llm.invoke does
chat(query, tool_map, tool, llm) ==
  LET route == should_use_tool(query)
  IN IF route.tool_name /= None /\ route.params /= None THEN
       format_tool_result(route.tool_name[1],
                          call_tool(tool_map, route.tool_name[1], route.params[1], tool))
     ELSE IF llm.raised THEN
       <<S("Xin lo^~i, to^i ga(.p chu't va^'n dde^- ky~ thua^.t. Ba.n thu+? ho?i la.i nhe'! (Lo^~i: "),
         S(llm.error), S(")")>>
     ELSE <<S(llm.value)>>

\* the queries put to the agent
Queries ==
  { <<"t", "o^", "i", " ", "b", "i.", " ", "t", "i", "e^?", "u", " ", "dd", "u+", "o+-", "n", "g", " ", "a(", "n", " ", "p", "h", "o+?", " ", "c", "o'", " ", "dd", "u+", "o+.", "c", " ", "k", "h", "o^", "n", "g">>,
    <<"B", "e'", "o", " ", "P", "h", "i-", " ", "n", "e^", "n", " ", "a(", "n", " ", "g", "i-">>,
    <<"p", "h", "a^", "n", " ", "t", "i'", "c", "h", " ", "m", "o'", "n", " ", "c", "o+", "m">>,
    <<"t", "u+", " ", "v", "a^'", "n", " ", "s", "u+'", "c", " ", "k", "h", "o?", "e">>,
    <<"c", "o^", "n", "g", " ", "t", "h", "u+'", "c", " ", "n", "a^'", "u", " ", "c", "a'">>,
    <<"t", "o^", "i", " ", "c", "o'", " ", "t", "h", "i.", "t", " ", "b", "o-", " ", "v", "a-", " ", "c", "a-", " ", "c", "h", "u", "a">>,
    <<"dd", "a^", "y", " ", "l", "a-", " ", "m", "o'", "n", " ", "g", "i-">>,
    <<"x", "i", "n", " ", "c", "h", "a-", "o">>,
    <<"c", "o^", "n", "g", " ", "t", "h", "u+'", "c", " ", "c", "h", "o", " ", "n", "g", "u+", "o+-", "i", " ", "t", "i", "e^?", "u", " ", "dd", "u+", "o+-", "n", "g">>,
    <<"c", "a'", "c", "h", " ", "l", "a-", "m", " ", "m", "o'", "n", " ", "n", "a-", "y">>,
    <<"c", "o^", "n", "g", " ", "t", "h", "u+'", "c", " ", "n", "a^'", "u", " ", "c", "a'", " ", "c", "h", "o", " ", "n", "g", "u+", "o+-", "i", " ", "c", "a", "o", " ", "h", "u", "y", "e^'", "t", " ", "a'", "p">> }

\* the names of the tools each construction site passes to the agent: the
\* /chat route (health_advisor_simple.HealthAdvisorTool, RecipeGeneratorTool,
\* DBQueryTool), chat_agent.py (RecipeGeneratorTool and the full
\* HealthAdvisorTool) and chat_with_agent.py (these and a VisionTool, whose
\* module src/ does not hold; its name is the one _call_tool dispatches on)
ConstructionSites ==
  { {"health_advisor", "recipe_generator_tool", "db_query"},
    {"recipe_generator_tool", "health_advisor_tool"},
    {"vision_tool", "recipe_generator_tool", "health_advisor_tool"} }

\* the tools the agent was built with: those of a construction site, or none
ToolMaps == ConstructionSites \cup {{}}

\* what a tool's _run may do: raise, return a text, return the dump of a
\* dict (results of HealthAdvisorTool among them), or return a text in braces
\* that is no JSON
ToolOutcomes ==
  << Raised("connection refused"),
    Returned(Text(<<S("Thie^'u OpenAI API key - kho^ng the^? ta.o co^ng thu+'c chi tie^'t.")>>)),
    Returned(Object(create_error_response(TongQuat))),
    Returned(Object(analyze_food_for_disease(TieuDuong, <<"p", "h", "o+?">>, "1 pha^-n", None))),
    Returned(Object(get_general_health_advice(BeoPhi, None, <<>>))),
    Returned(Object([loi |-> None])),
    Returned(Object([error |-> "Recipe generation failed"])),
    Returned(Object([recipe_name |-> "Ca' kho", ingredients |-> <<"ca'", "nu+o+'c ma('m">>,
                     cooking_time |-> 30])),
    Returned(Malformed(<<S("{'recipe_name': 'Ca' kho'}")>>)) >>

\* what self.llm.invoke may do
LlmOutcomes ==
  << Raised("Connection error."),
    Returned("Cha-o ba.n! To^i co' the^? giu'p gi- cho ba.n?") >>

-----------------------------------------------------------------------------
(* merge_disease_rules (src/foodadvisor-agent/app/utils/rules_merger.py)     *)
(*                                                                           *)
(* A rule row has the attributes the function reads (those of DiseaseRule in *)
(* src/foodadvisor-agent/app/models/disease.py).  list(set) has no fixed     *)
(* order; the lists made from sets are modelled as the sets.                 *)

Range(seq) == {seq[k] : k \in 1..Len(seq)}

\* "if value:" for a list and for a number that may be None
TruthyList(v) == v /= None /\ v[1] /= <<>>
TruthyNumber(v) == v /= None /\ v[1] /= 0

\* lines 27-29: the rows whose disease_name holds the text, case-insensitively
rule_rows(table, disease_name) ==
  {r \in table : IsSubstr(Lower(disease_name), Lower(r.disease_name))}

\* lines 53-55 (and 56-57): the union of the lists that are set
RECURSIVE merge_union(_, _)
merge_union(rules, key) ==
  IF rules = <<>> THEN {}
  ELSE (IF TruthyList(Head(rules)[key]) THEN Range(Head(rules)[key][1]) ELSE {})
       \cup merge_union(Tail(rules), key)

\* lines 59-64: merged_allowed_foods after the loop over rules, starting from
\* the set merged
RECURSIVE merge_allowed_foods(_, _)
merge_allowed_foods(rules, merged) ==
  IF rules = <<>> THEN merged
  ELSE LET rule == Head(rules)
       IN merge_allowed_foods(
            Tail(rules),
            IF TruthyList(rule.allowed_foods)
            THEN (IF merged = {} THEN Range(rule.allowed_foods[1])
                  ELSE merged \cap Range(rule.allowed_foods[1]))
            ELSE merged)

\* lines 70-89: the strictest of the limits that are set (smallest maximum,
\* largest minimum)
RECURSIVE merge_limit(_, _, _, _)
merge_limit(rules, key, current, smallest) ==
  IF rules = <<>> THEN current
  ELSE LET v == Head(rules)[key]
       IN merge_limit(
            Tail(rules), key,
            IF TruthyNumber(v) /\ (current = None
                             \/ (smallest /\ v[1] < current[1])
                             \/ (~smallest /\ v[1] > current[1]))
            THEN v ELSE current,
            smallest)

\* _generate_merged_advice: one line per rule that has advice, else the
\* general sentence with the names joined
generate_merged_advice(rules, disease_names) ==
  LET advice_parts ==
        SelectSeq([k \in 1..Len(rules) |->
                     [disease_name |-> rules[k].disease_name,
                      advice |-> rules[k].vietnamese_specific_advice]],
                  LAMBDA p : p.advice /= None /\ p.advice[1] /= "")
  IN IF advice_parts = <<>>
     THEN [text |-> "Khi co' nhie^-u be^.nh ly', ca^-n tua^n thu? cha(.t che~ ho+n ca'c quy ta('c dinh du+o+~ng.",
           names |-> disease_names]
     ELSE [lines |-> advice_parts]

\* merge_disease_rules on the rules found for the names (lines 33-110)
merge_disease_rules(disease_names, rules) ==
  IF rules = <<>> THEN
    [merged_rule |-> None,
     message |-> "Kho^ng ti-m tha^'y rules cho ca'c be^.nh ly' na-y"]
  ELSE
    LET merged_allowed_foods == merge_allowed_foods(rules, {})
    IN [merged_rule |->
          Some([diseases |-> disease_names,
                restricted_foods |-> merge_union(rules, "restricted_foods"),
                restricted_categories |-> merge_union(rules, "restricted_categories"),
                allowed_foods |->
                  IF merged_allowed_foods /= {} THEN Some(merged_allowed_foods) ELSE None,
                allowed_categories |-> None,
                max_calories_per_meal |-> merge_limit(rules, "max_calories_per_meal", None, TRUE),
                max_carbs_per_meal |-> merge_limit(rules, "max_carbs_per_meal", None, TRUE),
                max_fat_per_meal |-> merge_limit(rules, "max_fat_per_meal", None, TRUE),
                max_sodium_per_day |-> merge_limit(rules, "max_sodium_per_day", None, TRUE),
                min_protein_per_meal |-> merge_limit(rules, "min_protein_per_meal", None, FALSE),
                recommendations |-> merge_union(rules, "recommendations"),
                vietnamese_specific_advice |-> generate_merged_advice(rules, disease_names)]),
        source_rules |-> [k \in 1..Len(rules) |-> rules[k].disease_name]]


\* rows the diseases_rules table may hold
RuleRows ==
  { [disease_name |-> TieuDuong,
     allowed_foods |-> Some(<<"Rau xanh", "Ca'">>),
     restricted_foods |-> Some(<<"Ba'nh ngo.t", "Nu+o+'c ngo.t">>),
     restricted_categories |-> Some(<<"DDo^- ngo.t">>),
     recommendations |-> Some(<<"Chia nho? bu+~a a(n">>),
     max_calories_per_meal |-> Some(500), max_carbs_per_meal |-> Some(45),
     max_fat_per_meal |-> None, max_sodium_per_day |-> None,
     min_protein_per_meal |-> Some(15),
     vietnamese_specific_advice |-> Some("A(n pho+? i't ba'nh")],
    [disease_name |-> HuyetApCao,
     allowed_foods |-> Some(<<"Ca'", "Chuo^'i">>),
     restricted_foods |-> Some(<<"Nu+o+'c ma('m", "Nu+o+'c ngo.t">>),
     restricted_categories |-> None,
     recommendations |-> Some(<<"Chia nho? bu+~a a(n", "A(n nha.t">>),
     max_calories_per_meal |-> Some(600), max_carbs_per_meal |-> None,
     max_fat_per_meal |-> Some(20), max_sodium_per_day |-> Some(1500),
     min_protein_per_meal |-> Some(20),
     vietnamese_specific_advice |-> None],
    [disease_name |-> <<"G", "o", "u", "t">>,
     allowed_foods |-> Some(<<"Chuo^'i">>),
     restricted_foods |-> Some(<<>>),
     restricted_categories |-> None,
     recommendations |-> None,
     max_calories_per_meal |-> None, max_carbs_per_meal |-> None,
     max_fat_per_meal |-> None, max_sodium_per_day |-> None,
     min_protein_per_meal |-> None,
     vietnamese_specific_advice |-> None],
    [disease_name |-> <<"M", "o+~", " ", "m", "a'", "u", " ", "c", "a", "o">>,
     allowed_foods |-> None,
     restricted_foods |-> Some(<<"Mo+~ ddo^.ng va^.t">>),
     restricted_categories |-> Some(<<"DDo^- chie^n">>),
     recommendations |-> Some(<<>>),
     max_calories_per_meal |-> Some(0), max_carbs_per_meal |-> None,
     max_fat_per_meal |-> Some(15), max_sodium_per_day |-> None,
     min_protein_per_meal |-> None,
     vietnamese_specific_advice |-> Some("Ha.n che^' ddo^- chie^n")] }

\* how many diseases a caller names
MaxNames == 3

\* the names a caller gives: a name of a row as written, one in lower case,
\* a part of two names, a name of no row
RuleNames ==
  { TieuDuong, Lower(<<"G", "o", "u", "t">>), <<"c", "a", "o">>, <<"U", "n", "g", " ", "t", "h", "u+">> }

NameLists == UNION {[1..n -> RuleNames] : n \in 0..MaxNames}

\* lines 25-31: for each name one row that matches it, names without a row
\* left out; every list of rows the loop can collect
RECURSIVE found_rules(_, _)
found_rules(table, disease_names) ==
  IF disease_names = <<>> THEN {<<>>}
  ELSE LET rows == rule_rows(table, Head(disease_names))
           rest == found_rules(table, Tail(disease_names))
       IN IF rows = {} THEN rest
          ELSE {<<r>> \o t : r \in rows, t \in rest}

\* how many advisor calls may be in progress at once
MaxCalls == 2
CallIds == 1..MaxCalls

-----------------------------------------------------------------------------
(* Operations *)

\* no call in progress; the advisor keeps nothing between calls
Init ==
  /\ op = "idle"
  /\ disease_arg = None
  /\ food_name_arg = None
  /\ portion_arg = None
  /\ db = None
  /\ nutrition_arg = None
  /\ result = None
  /\ calls = [i \in CallIds |-> None]
  /\ disease_map = DISEASE_MAP
  /\ sessions = [i \in CallIds |-> None]
  /\ request = None

\* a call of _normalize_disease_name
Normalize(text) ==
  /\ UNCHANGED <<calls, disease_map, sessions>>
  /\ request' = None
  /\ op' = "normalize"
  /\ disease_arg' = text
  /\ food_name_arg' = None
  /\ portion_arg' = None
  /\ db' = None
  /\ nutrition_arg' = None
  /\ result' = normalize_disease_name(text)

\* a call of _calculate_safety_score
ScoreFood(n, d) ==
  /\ UNCHANGED <<calls, disease_map, sessions>>
  /\ request' = None
  /\ op' = "score"
  /\ disease_arg' = d
  /\ food_name_arg' = None
  /\ portion_arg' = None
  /\ db' = None
  /\ nutrition_arg' = Some(n)
  /\ result' = calculate_safety_score(n, d)

\* a call of HealthAdvisorTool._run; the tables are what the database holds
\* during the call, fails the queries that raise
Run(text, name, portion_size) ==
  LET standardized_disease == normalize_disease_name(text)
  IN
  /\ UNCHANGED <<calls, disease_map, sessions>>
  /\ request' = None
  /\ op' = "run"
  /\ disease_arg' = text
  /\ food_name_arg' = name
  /\ portion_arg' = portion_size
  /\ IF standardized_disease = None THEN
       /\ db' = None
       /\ nutrition_arg' = None
       /\ result' = create_error_response(text)
     ELSE IF name /= None /\ Strip(name[1]) /= <<>> THEN
       \E foods \in Tables(FoodRows), raises \in BOOLEAN :
         \E from_db \in get_food_nutrition(name[1], foods, raises) :
           /\ db' = [foods |-> foods, conditions |-> {},
                     fails |-> IF raises THEN {"nutrition"} ELSE {}]
           /\ nutrition_arg' =
                IF from_db = None THEN get_fallback_nutrition(name[1]) ELSE from_db
           /\ result' = analyze_food_for_disease(
                          standardized_disease[1], name[1], portion_size, from_db)
     ELSE
       \E foods \in Tables(FoodRows), conditions \in Tables(ConditionRows),
          fails \in SUBSET {"rules", "suitable"} :
         \E disease_rules \in get_disease_rules(
                                standardized_disease[1], conditions, "rules" \in fails),
            suitable_foods \in get_suitable_foods_for_disease(
                                 standardized_disease[1], 5, foods, "suitable" \in fails) :
           /\ db' = [foods |-> foods, conditions |-> conditions, fails |-> fails]
           /\ nutrition_arg' = None
           /\ result' = get_general_health_advice(
                          standardized_disease[1], disease_rules, suitable_foods)

\* a call of health_advisor_simple.HealthAdvisorTool._run
SimpleRun(text, name) ==
  /\ UNCHANGED <<calls, disease_map, sessions>>
  /\ request' = None
  /\ op' = "simple_run"
  /\ disease_arg' = text
  /\ food_name_arg' = name
  /\ portion_arg' = None
  /\ db' = None
  /\ nutrition_arg' = None
  /\ result' = simple_run(text, name)

\* a call of DBQueryTool._run
DbQuery(query_type, name) ==
  /\ UNCHANGED <<calls, disease_map, sessions>>
  /\ request' = None
  /\ op' = query_type
  /\ disease_arg' = None
  /\ food_name_arg' = name
  /\ portion_arg' = None
  /\ db' = None
  /\ nutrition_arg' = None
  /\ result' = db_query_run(query_type, name)

\* a call of DatabaseHelpers.get_food_nutrition
GetFoodNutrition(name) ==
  \E foods \in Tables(FoodRows), raises \in BOOLEAN :
    \E found \in get_food_nutrition(name, foods, raises) :
      /\ UNCHANGED <<calls, disease_map, sessions>>
      /\ request' = None
      /\ op' = "get_food_nutrition"
      /\ disease_arg' = None
      /\ food_name_arg' = Some(name)
      /\ portion_arg' = None
      /\ db' = [foods |-> foods, conditions |-> {},
                fails |-> IF raises THEN {"nutrition"} ELSE {}]
      /\ nutrition_arg' = None
      /\ result' = found

\* a call of HealthAdvisorTool._get_fallback_nutrition
GetFallbackNutrition(name) ==
  /\ UNCHANGED <<calls, disease_map, sessions>>
  /\ request' = None
  /\ op' = "get_fallback_nutrition"
  /\ disease_arg' = None
  /\ food_name_arg' = Some(name)
  /\ portion_arg' = None
  /\ db' = None
  /\ nutrition_arg' = None
  /\ result' = get_fallback_nutrition(name)

\* a call of SimpleFoodAgent.chat; db holds the tools the agent was built
\* with and what the routed tool and the LLM do during the call
Chat(query, tool_map, tool, llm) ==
  /\ UNCHANGED <<calls, disease_map, sessions>>
  /\ request' = Some(query)
  /\ op' = "chat"
  /\ disease_arg' = None
  /\ food_name_arg' = None
  /\ portion_arg' = None
  /\ db' = [tool_map |-> tool_map, tool |-> tool, llm |-> llm,
            invoked |-> invocations(query, tool_map)]
  /\ nutrition_arg' = None
  /\ result' = chat(query, tool_map, tool, llm)

\* a call of merge_disease_rules; db holds the diseases_rules table
MergeRules(disease_names) ==
  \E table \in Tables(RuleRows) :
    \E rules \in found_rules(table, disease_names) :
      /\ UNCHANGED <<calls, disease_map, sessions>>
      /\ request' = Some(disease_names)
      /\ op' = "merge_disease_rules"
      /\ disease_arg' = None
      /\ food_name_arg' = None
      /\ portion_arg' = None
      /\ db' = [rules |-> table]
      /\ nutrition_arg' = None
      /\ result' = merge_disease_rules(disease_names, rules)

\* a call of DatabaseHelpers.get_disease_rules with a category of the advisor
GetDiseaseRules(d) ==
  \E conditions \in Tables(ConditionRows), raises \in BOOLEAN :
    \E rules \in get_disease_rules(d, conditions, raises) :
      /\ UNCHANGED <<calls, disease_map, sessions>>
      /\ request' = None
      /\ op' = "get_disease_rules"
      /\ disease_arg' = d
      /\ food_name_arg' = None
      /\ portion_arg' = None
      /\ db' = [foods |-> {}, conditions |-> conditions,
                fails |-> IF raises THEN {"rules"} ELSE {}]
      /\ nutrition_arg' = None
      /\ result' = rules

\* the caller consumes the result; it is discarded
Return ==
  /\ op /= "idle"
  /\ UNCHANGED <<calls, disease_map, sessions>>
  /\ request' = None
  /\ op' = "idle"
  /\ disease_arg' = None
  /\ food_name_arg' = None
  /\ portion_arg' = None
  /\ db' = None
  /\ nutrition_arg' = None
  /\ result' = None

\* a call starts only when none is in progress
Next ==
  \/ Return
  \/ op = "idle" /\ \E text \in DiseaseTexts : Normalize(text)
  \/ op = "idle" /\ \E n \in NutritionInputs, d \in Diseases \cup {BenhTimMach} : ScoreFood(n, d)
  \/ op = "idle" /\ \E text \in RunTexts, name \in FoodNames, portion_size \in PortionSizes :
                      Run(text, name, portion_size)
  \/ op = "idle" /\ \E text \in RunTexts, name \in FoodNames : SimpleRun(text, name)
  \/ op = "idle" /\ \E query_type \in QueryTypes, name \in FoodNames : DbQuery(query_type, name)
  \/ op = "idle" /\ \E name \in FoodNames \ {None} : GetFoodNutrition(name[1])
  \/ op = "idle" /\ \E name \in FoodNames \ {None} : GetFallbackNutrition(name[1])
  \/ op = "idle" /\ \E query \in Queries, tool_map \in ToolMaps,
                         t \in 1..Len(ToolOutcomes), l \in 1..Len(LlmOutcomes) :
                      Chat(query, tool_map, ToolOutcomes[t], LlmOutcomes[l])
  \/ op = "idle" /\ \E disease_names \in NameLists : MergeRules(disease_names)
  \/ op = "idle" /\ \E d \in Diseases : GetDiseaseRules(d)

Spec == Init /\ [][Next]_vars

-----------------------------------------------------------------------------
(* One call of HealthAdvisorTool._run taken statement by statement, several  *)
(* calls in progress at once.  calls[i] holds the locals of call i (None     *)
(* when no call i is in progress), disease_map is the class attribute        *)
(* HealthAdvisorTool.DISEASE_MAP shared by every call, sessions[s] is the    *)
(* statement pending on the SessionLocal object s (None when closed), and db *)
(* is what the database holds and how it answers each name.                  *)

\* variant: a text that is no key is remembered under the first category
disease_map_cached(table, text) ==
  IF DictGet(table, Lower(Strip(text))) = None
  THEN Append(table, <<Lower(Strip(text)), TieuDuong>>)
  ELSE table

\* what dict.get at line 86 leaves in DISEASE_MAP: it only reads
disease_map_after(table, text) == table

\* variant: the lookup is tried whether or not the disease was recognised
after_normalize_eager(standardized_disease, food_name) ==
  IF food_name /= None /\ Strip(food_name[1]) /= <<>> THEN "lookup"
  ELSE IF standardized_disease = None THEN "error"
  ELSE "general"

\* lines 74-81 of _run: where the call goes once the disease is normalised
after_normalize(standardized_disease, food_name) ==
  IF standardized_disease = None THEN "error"
  ELSE IF food_name /= None /\ Strip(food_name[1]) /= <<>> THEN "lookup"
  ELSE "general"

\* variant: one module-level session used by every call
session_shared(i) == 1

\* db = SessionLocal(): each call of get_food_nutrition opens a session of its own
session_of(i) == i

\* lines 148-183 of _analyze_food_for_disease: the result built from the
\* resolved nutrition facts and the score
food_result(d, name, portion_size, n, score) ==
  [thong_tin_mon_an |->
     [ten |-> name, khau_phan |-> portion_size, dinh_duong_chi_tiet |-> n],
   phan_tich_cho_benh |-> d,
   danh_gia_tung_chat |-> analyze_nutrients_for_disease(n, d),
   muc_do_an_toan |-> safety_level(score),
   diem_so |-> score,
   loi_khuyen_cu_the |-> specific_advice(score),
   cach_dieu_chinh |-> get_adjustment_suggestions(n, d)]

\* the disease texts and food names of the concurrent calls
CallTexts ==
  { Lower(TieuDuong), <<"u", "n", "g", " ", "t", "h", "u+">> }
CallNames ==
  { None,
    Some(<<"p", "h", "o+?", " ", "b", "o-">>),
    Some(<<"c", "a", "n", "h", " ", "r", "a", "u">>),
    Some(<<"m", "o'", "n", " ", "k", "h", "o^", "n", "g", " ", "t", "o^-", "n", " ", "t", "a.", "i">>) }
CallNameTexts == {name[1] : name \in CallNames \ {None}}

\* the Food tables of the concurrent calls: empty, or the two rows the names match
CallFoodTables ==
  { {},
    {r \in FoodRows : \E name \in CallNameTexts : IsSubstr(Lower(name), Lower(r.name))} }

\* a database and the answer get_food_nutrition gives for each name on it
StoreAnswers(foods, raises) ==
  {a \in [CallNameTexts -> {None} \cup {Some(nutrition_data(r)) : r \in FoodRows}] :
     \A name \in CallNameTexts : a[name] \in get_food_nutrition(name, foods, raises)}
CallStores ==
  UNION { { [foods |-> foods, conditions |-> {},
             fails |-> IF raises THEN {"nutrition"} ELSE {},
             answers |-> answers] : answers \in StoreAnswers(foods, raises) } :
          foods \in CallFoodTables, raises \in BOOLEAN }

old_vars == <<op, disease_arg, food_name_arg, portion_arg, nutrition_arg, db, result, request>>

CallInit ==
  /\ op = "idle"
  /\ disease_arg = None
  /\ food_name_arg = None
  /\ portion_arg = None
  /\ nutrition_arg = None
  /\ result = None
  /\ db \in CallStores
  /\ calls = [i \in CallIds |-> None]
  /\ disease_map = DISEASE_MAP
  /\ sessions = [i \in CallIds |-> None]
  /\ request = None

\* _run is entered with its arguments
StartCall(i, text, name) ==
  /\ calls[i] = None
  /\ calls' = [calls EXCEPT ![i] =
       [pc |-> "normalize", disease |-> text, food_name |-> name,
        portion_size |-> "1 pha^-n", standardized_disease |-> None,
        nutrition_info |-> None, score |-> None, result |-> None, log |-> <<>>]]
  /\ UNCHANGED <<disease_map, sessions, old_vars>>

\* line 73: standardized_disease = self._normalize_disease_name(disease)
DoNormalize(i) ==
  /\ calls[i] /= None /\ calls[i].pc = "normalize"
  /\ LET standardized_disease == DictGet(disease_map, Lower(Strip(calls[i].disease)))
     IN calls' = [calls EXCEPT ![i] =
          [@ EXCEPT !.standardized_disease = standardized_disease,
                    !.pc = after_normalize(standardized_disease, calls[i].food_name),
                    !.log = Append(@, "normalize")]]
  /\ disease_map' = disease_map_after(disease_map, calls[i].disease)
  /\ UNCHANGED <<sessions, old_vars>>

\* lines 74-75: return self._create_error_response(disease)
DoError(i) ==
  /\ calls[i] /= None /\ calls[i].pc = "error"
  /\ calls' = [calls EXCEPT ![i] =
       [@ EXCEPT !.result = Some(create_error_response(calls[i].disease)),
                 !.pc = "done",
                 !.log = Append(@, "compose")]]
  /\ UNCHANGED <<disease_map, sessions, old_vars>>

\* health_advisor.py line 135, database_helpers.py lines 38-43: the session is
\* opened and the ilike query on the food name is built on it
DoQuery(i) ==
  /\ calls[i] /= None /\ calls[i].pc = "lookup"
  /\ sessions' = [sessions EXCEPT ![session_of(i)] = Some(calls[i].food_name[1])]
  /\ calls' = [calls EXCEPT ![i] =
       [@ EXCEPT !.pc = "first", !.log = Append(@, "lookup")]]
  /\ UNCHANGED <<disease_map, old_vars>>

\* database_helpers.py lines 43-79: .first() runs the pending statement, the
\* row is converted (or None returned), the session is closed
DoFirst(i) ==
  /\ calls[i] /= None /\ calls[i].pc = "first"
  /\ sessions[session_of(i)] /= None
  /\ LET nutrition_info == db.answers[sessions[session_of(i)][1]]
     IN calls' = [calls EXCEPT ![i] =
          [@ EXCEPT !.nutrition_info = nutrition_info,
                    !.pc = IF nutrition_info = None THEN "fallback" ELSE "score"]]
  /\ sessions' = [sessions EXCEPT ![session_of(i)] = None]
  /\ UNCHANGED <<disease_map, old_vars>>

\* lines 138-139: nutrition_info = self._get_fallback_nutrition(food_name)
DoFallback(i) ==
  /\ calls[i] /= None /\ calls[i].pc = "fallback"
  /\ LET nutrition_info == get_fallback_nutrition(calls[i].food_name[1])
     IN calls' = [calls EXCEPT ![i] =
          [@ EXCEPT !.nutrition_info = nutrition_info,
                    !.pc = IF nutrition_info = None THEN "not_found" ELSE "score",
                    !.log = Append(@, "fallback")]]
  /\ UNCHANGED <<disease_map, sessions, old_vars>>

\* lines 141-145: the food is in neither table
DoNotFound(i) ==
  /\ calls[i] /= None /\ calls[i].pc = "not_found"
  /\ calls' = [calls EXCEPT ![i] =
       [@ EXCEPT !.result =
                   Some([loi |-> NotFoundPrefix \o calls[i].food_name[1] \o <<"'">>,
                         goi_y |-> "Thu+? vo+'i te^n mo'n a(n kha'c nhu+: pho+? bo-, co+m ta^'m, ba'nh mi-, go?i cuo^'n"]),
                 !.pc = "done",
                 !.log = Append(@, "compose")]]
  /\ UNCHANGED <<disease_map, sessions, old_vars>>

\* lines 163-164: score = self._calculate_safety_score(nutrition_info, disease)
DoScore(i) ==
  /\ calls[i] /= None /\ calls[i].pc = "score"
  /\ calls' = [calls EXCEPT ![i] =
       [@ EXCEPT !.score =
                   Some(calculate_safety_score(calls[i].nutrition_info[1],
                                               calls[i].standardized_disease[1])),
                 !.pc = "compose",
                 !.log = Append(@, "score")]]
  /\ UNCHANGED <<disease_map, sessions, old_vars>>

\* lines 148-160 and 167-183: the result is filled in and returned
DoCompose(i) ==
  /\ calls[i] /= None /\ calls[i].pc = "compose"
  /\ calls' = [calls EXCEPT ![i] =
       [@ EXCEPT !.result =
                   Some(food_result(calls[i].standardized_disease[1], calls[i].food_name[1],
                                    calls[i].portion_size, calls[i].nutrition_info[1],
                                    calls[i].score[1])),
                 !.pc = "done",
                 !.log = Append(@, "compose")]]
  /\ UNCHANGED <<disease_map, sessions, old_vars>>

\* line 81: return self._get_general_health_advice(standardized_disease)
DoGeneral(i) ==
  /\ calls[i] /= None /\ calls[i].pc = "general"
  /\ \E disease_rules \in get_disease_rules(
                            calls[i].standardized_disease[1], db.conditions, FALSE),
        suitable_foods \in get_suitable_foods_for_disease(
                             calls[i].standardized_disease[1], 5, db.foods, FALSE) :
       calls' = [calls EXCEPT ![i] =
         [@ EXCEPT !.result = Some(get_general_health_advice(
                                calls[i].standardized_disease[1], disease_rules, suitable_foods)),
                   !.pc = "done",
                   !.log = Append(@, "compose")]]
  /\ UNCHANGED <<disease_map, sessions, old_vars>>

\* the caller has the returned value; the locals of the call are gone
Finish(i) ==
  /\ calls[i] /= None /\ calls[i].pc = "done"
  /\ calls' = [calls EXCEPT ![i] = None]
  /\ UNCHANGED <<disease_map, sessions, old_vars>>

CallNext ==
  \/ \E i \in CallIds, text \in CallTexts, name \in CallNames : StartCall(i, text, name)
  \/ \E i \in CallIds : DoNormalize(i)
  \/ \E i \in CallIds : DoError(i)
  \/ \E i \in CallIds : DoQuery(i)
  \/ \E i \in CallIds : DoFirst(i)
  \/ \E i \in CallIds : DoFallback(i)
  \/ \E i \in CallIds : DoNotFound(i)
  \/ \E i \in CallIds : DoScore(i)
  \/ \E i \in CallIds : DoCompose(i)
  \/ \E i \in CallIds : DoGeneral(i)
  \/ \E i \in CallIds : Finish(i)

CallSpec == CallInit /\ [][CallNext]_vars

-----------------------------------------------------------------------------
(* Properties *)

\* the value under a key of a nutrition dict, absent and null counting as 0
Amount(n, key) == IF key \in DOMAIN n /\ n[key] /= None THEN n[key][1] ELSE 0

\* the keys a food analysis carries a score, a tier or numbers under
ScoreKeys == {"diem_so", "muc_do_an_toan", "thong_tin_mon_an", "danh_gia_tung_chat"}

\* a whole advisor call that analysed a food
FoodAnalysed == op = "run" /\ "diem_so" \in DOMAIN result

\* C1: for each of the three diseases and every nutrition record (values
\* absent, null, negative or not, any category) _calculate_safety_score returns
\* a score s with 0 <= s <= 100, and the "điểm_số" of every food analysis that
\* _run returns is in that range.
ScoreBounds ==
  /\ op = "score" => result >= 0 /\ result <= 100
  /\ FoodAnalysed => result.diem_so >= 0 /\ result.diem_so <= 100

\* C1: the scorer returned the highest score for a record with null fields
ScoreBoundsWitness ==
  /\ op = "score"
  /\ result = 100
  /\ \E key \in DOMAIN nutrition_arg[1] : nutrition_arg[1][key] = None

\* C2: in every food analysis of _run the tier is a function of the score of
\* the same result: "RẤT AN TOÀN" iff score >= 80, "CHẤP NHẬN ĐƯỢC" iff
\* 60 <= score < 80, "KHÔNG NÊN ĂN" iff score < 60, and the three labels are
\* pairwise distinct.
TierFollowsScore ==
  /\ RatAnToan /= ChapNhanDuoc /\ ChapNhanDuoc /= KhongNenAn /\ RatAnToan /= KhongNenAn
  /\ FoodAnalysed =>
       /\ result.muc_do_an_toan \in {RatAnToan, ChapNhanDuoc, KhongNenAn}
       /\ result.muc_do_an_toan = RatAnToan <=> result.diem_so >= 80
       /\ result.muc_do_an_toan = ChapNhanDuoc <=> result.diem_so >= 60 /\ result.diem_so < 80
       /\ result.muc_do_an_toan = KhongNenAn <=> result.diem_so < 60

\* C2: a food analysis whose score is on the lower edge of the middle tier
TierFollowsScoreWitness ==
  FoodAnalysed /\ result.diem_so = 60 /\ result.muc_do_an_toan = ChapNhanDuoc

\* the reference function of C3, from the statement of the claim
ReferenceClamp(s) == IF s < 0 THEN 0 ELSE IF s > 100 THEN 100 ELSE s

ReferenceDiabetes(n) ==
  LET carbs == Amount(n, "carbs")
      carbsDelta == CASE carbs <= 30 -> 20
                      [] carbs > 30 /\ carbs <= 50 -> 10
                      [] carbs > 50 -> -20
      proteinDelta == IF Amount(n, "protein") >= 15 THEN 15 ELSE 0
      caloriesDelta == IF Amount(n, "calories") <= 400 THEN 15 ELSE 0
  IN ReferenceClamp(50 + carbsDelta + proteinDelta + caloriesDelta)

ReferenceObesity(n) ==
  LET calories == Amount(n, "calories")
      fat == Amount(n, "fat")
      caloriesDelta == CASE calories <= 200 -> 25
                         [] calories > 200 /\ calories <= 400 -> 10
                         [] calories > 400 -> -25
      fatDelta == CASE fat <= 10 -> 15
                    [] fat > 10 /\ fat <= 20 -> 5
                    [] fat > 20 -> -15
  IN ReferenceClamp(50 + caloriesDelta + fatDelta)

\* the two records the claim names
PhoBoFacts ==
  ("calories" :> Some(450)) @@ ("protein" :> Some(30)) @@ ("carbs" :> Some(45)) @@ ("fat" :> Some(15))

HeavyFacts == ("calories" :> Some(650)) @@ ("fat" :> Some(25))

\* C3: for "Tiểu đường" and "Béo phì" the score is the reference function:
\* 50, one carbs delta (<= 30: +20, <= 50: +10, else -20), +15 if protein >= 15,
\* +15 if calories <= 400 for the first; 50, one calories delta (<= 200: +25,
\* <= 400: +10, else -25) and one fat delta (<= 10: +15, <= 20: +5, else -15)
\* for the second; clamped to [0, 100].  {450, 30, 45, 15} scores 75, the
\* middle tier, for the first, {650, fat 25} scores 10, the lowest tier, for
\* the second.
ScoreIsReference ==
  /\ (op = "score" /\ disease_arg = TieuDuong) => result = ReferenceDiabetes(nutrition_arg[1])
  /\ (op = "score" /\ disease_arg = BeoPhi) => result = ReferenceObesity(nutrition_arg[1])
  /\ (op = "score" /\ disease_arg = TieuDuong /\ nutrition_arg = Some(PhoBoFacts)) =>
       result = 75 /\ safety_level(result) = ChapNhanDuoc
  /\ (op = "score" /\ disease_arg = BeoPhi /\ nutrition_arg = Some(HeavyFacts)) =>
       result = 10 /\ safety_level(result) = KhongNenAn
  /\ (FoodAnalysed /\ result.phan_tich_cho_benh = TieuDuong) =>
       result.diem_so = ReferenceDiabetes(nutrition_arg[1])
  /\ (FoodAnalysed /\ result.phan_tich_cho_benh = BeoPhi) =>
       result.diem_so = ReferenceObesity(nutrition_arg[1])

\* C3: the scorer was called for "Béo phì" on the second record of the claim
ScoreIsReferenceWitness ==
  op = "score" /\ disease_arg = BeoPhi /\ nutrition_arg = Some(HeavyFacts) /\ result = 10

\* C4: for "Huyết áp cao" the score is 50, +15 if calories <= 300, +10 if
\* protein >= 10, +20 if the category is one of the low-sodium categories,
\* clamped to [0, 100]; the sodium value of the record, present or not, does
\* not change it.
HypertensionScore ==
  (op = "score" /\ disease_arg = HuyetApCao) =>
    LET n == nutrition_arg[1]
        lowSodium == "category" \in DOMAIN n /\ n["category"] \in {Some(Rau), Some(TraiCay), Some(Ca)}
        withoutSodium == [key \in DOMAIN n \ {"sodium"} |-> n[key]]
    IN /\ result = ReferenceClamp(50 + (IF Amount(n, "calories") <= 300 THEN 15 ELSE 0)
                                     + (IF Amount(n, "protein") >= 10 THEN 10 ELSE 0)
                                     + (IF lowSodium THEN 20 ELSE 0))
       /\ result = calculate_safety_score(withoutSodium, HuyetApCao)
       /\ \A sodium \in {0, 300, 600, 601, 1200, 5000} :
            result = calculate_safety_score(("sodium" :> Some(sodium)) @@ n, HuyetApCao)

\* C4: the best score for "Huyết áp cao" given to a record high in sodium
HypertensionScoreWitness ==
  /\ op = "score" /\ disease_arg = HuyetApCao
  /\ "sodium" \in DOMAIN nutrition_arg[1] /\ nutrition_arg[1]["sodium"] = Some(1200)
  /\ result = 95

\* C5: with the other fields held fixed the score never rises with the
\* dominant nutrient: for "Tiểu đường" and all carbs a <= b in 20..60,
\* score(carbs = b) <= score(carbs = a); for "Béo phì" and all calories
\* a <= b in 100..600, score(calories = b) <= score(calories = a).  The record
\* of the call holds the other fields.  Each value is compared with the next
\* one: on an interval of integers that is the same as all pairs a <= b.
ScoreMonotone ==
  op = "score" =>
    LET n == nutrition_arg[1]
        byCarbs(a) == calculate_safety_score(("carbs" :> Some(a)) @@ n, TieuDuong)
        byCalories(a) == calculate_safety_score(("calories" :> Some(a)) @@ n, BeoPhi)
    IN /\ (disease_arg = TieuDuong /\ "carbs" \notin DOMAIN n) =>
            \A a \in 20..59 : byCarbs(a + 1) <= byCarbs(a)
       /\ (disease_arg = BeoPhi /\ "calories" \notin DOMAIN n) =>
            \A a \in 100..599 : byCalories(a + 1) <= byCalories(a)

\* C5: the scorer was called for "Béo phì" on a record that fixes the fat and
\* leaves the calories open
ScoreMonotoneWitness ==
  /\ op = "score" /\ disease_arg = BeoPhi
  /\ "calories" \notin DOMAIN nutrition_arg[1]
  /\ "fat" \in DOMAIN nutrition_arg[1] /\ nutrition_arg[1]["fat"] = Some(15)

\* C6: _normalize_disease_name(text) returns the category c iff the text,
\* lower-cased and trimmed, is exactly a key of the synonym table mapped to c,
\* and None otherwise: "đái tháo đường" gives "Tiểu đường", "thừa cân"
\* "Béo phì", "tăng huyết áp" and "huyết áp cao" "Huyết áp cao"; case and
\* surrounding blanks do not matter; a text that only holds a key is not found.
NormalizeExact ==
  op = "normalize" =>
    LET key == Strip(Lower(disease_arg))
        entries == {i \in 1..Len(DISEASE_MAP) : DISEASE_MAP[i][1] = key}
    IN /\ \A c \in Diseases : result = Some(c) <=> \E i \in entries : DISEASE_MAP[i][2] = c
       /\ result = None <=> entries = {}
       /\ key = <<"dd", "a'", "i", " ", "t", "h", "a'", "o", " ", "dd", "u+", "o+-", "n", "g">>
            => result = Some(TieuDuong)
       /\ key = <<"t", "h", "u+-", "a", " ", "c", "a^", "n">> => result = Some(BeoPhi)
       /\ key = <<"t", "a(", "n", "g", " ", "h", "u", "y", "e^'", "t", " ", "a'", "p">>
            => result = Some(HuyetApCao)
       /\ key = <<"h", "u", "y", "e^'", "t", " ", "a'", "p", " ", "c", "a", "o">>
            => result = Some(HuyetApCao)
       /\ key = <<"b", "e^.", "n", "h", " ", "t", "i", "e^?", "u", " ", "dd", "u+", "o+-", "n", "g">>
            => result = None

\* C6: a synonym written in upper case between blanks was recognised
NormalizeExactWitness ==
  /\ op = "normalize"
  /\ disease_arg = <<" ", "T", "H", "U+-", "A", " ", "C", "A^", "N", " ">>
  /\ result = Some(BeoPhi)

\* the text holds each of the names
Lists(text, names) == \A name \in names : IsSubstr(name, text)

\* C7: when the disease text does not normalise to a category the advisor
\* returns, whatever the food name, an error-shaped result that carries the
\* text as given and lists the three categories, with no advice, score or tier;
\* no path puts a default category in the place of an unknown disease.  The
\* full advisor carries the text under "bạn_nhập"; the simple one carries it in
\* the message and lists the categories it knows, the three among them.
UnknownDiseaseIsError ==
  /\ (op = "run" /\ Strip(Lower(disease_arg)) \notin DictKeys(DISEASE_MAP)) =>
       /\ DOMAIN result = {"loi", "ban_nhap", "goi_y"}
       /\ result.ban_nhap = disease_arg
       /\ Lists(result.loi, {TieuDuong, BeoPhi, HuyetApCao})
  /\ (op = "simple_run" /\ Strip(Lower(disease_arg)) \notin DictKeys(SIMPLE_DISEASE_MAP)) =>
       /\ DOMAIN result = {"loi", "goi_y", "huong_dan"}
       /\ IsSubstr(disease_arg, result.loi)
       /\ Lists(result.goi_y, {Lower(TieuDuong), Lower(BeoPhi), Lower(CaoHuyetAp)})

\* C7: the full advisor was asked about a food for a disease it does not know
UnknownDiseaseIsErrorWitness ==
  /\ op = "run"
  /\ disease_arg = <<"u", "n", "g", " ", "t", "h", "u+">>
  /\ food_name_arg = Some(<<"p", "h", "o+?", " ", "b", "o-">>)
  /\ "loi" \in DOMAIN result

\* a whole advisor call for a known disease and a food name that is not blank
FoodAsked ==
  /\ op = "run"
  /\ Strip(Lower(disease_arg)) \in DictKeys(DISEASE_MAP)
  /\ food_name_arg /= None
  /\ Strip(food_name_arg[1]) /= <<>>

\* the rows of the foods table the name is part of, none when the query fails
MatchingRows ==
  IF db.fails /= {} THEN {}
  ELSE {row \in db.foods : IsSubstr(Lower(food_name_arg[1]), Lower(row.name))}

\* the entries of the built-in table whose key holds the name or is held by it
MatchingEntries ==
  {i \in 1..Len(food_db) :
     \/ IsSubstr(Lower(food_name_arg[1]), food_db[i][1])
     \/ IsSubstr(food_db[i][1], Lower(food_name_arg[1]))}

LookupMissIsNotFound ==
  /\ (op = "get_food_nutrition" /\ MatchingRows = {}) => result = None
  /\ (op = "get_fallback_nutrition" /\ MatchingEntries = {}) => result = None
  /\ ( /\ op = "nutrition_estimate"
       /\ food_name_arg \notin {None, Some(<<>>)}
       /\ \A i \in 1..Len(estimate_nutrition_db) :
            /\ ~IsSubstr(Lower(food_name_arg[1]), estimate_nutrition_db[i][1])
            /\ ~IsSubstr(estimate_nutrition_db[i][1], Lower(food_name_arg[1])) )
     => "nutrition_per_serving" \notin DOMAIN result

\* C10: a nutrition record with a negative calories, protein, carbs or fat
\* value is rejected before scoring: no score and no tier is produced from it.
NegativeValueRejected ==
  LET negative(n) == \E key \in {"calories", "protein", "carbs", "fat"} : Amount(n, key) < 0
  IN /\ (op = "score" /\ negative(nutrition_arg[1])) => result \notin Int
     /\ (op = "run" /\ nutrition_arg /= None /\ negative(nutrition_arg[1])) =>
          DOMAIN result \cap {"diem_so", "muc_do_an_toan"} = {}

\* the nutrients the scorer reads for a disease
RequiredNutrients(d) ==
  IF d = TieuDuong THEN {"carbs", "protein", "calories"}
  ELSE IF d = BeoPhi THEN {"calories", "fat"}
  ELSE {"calories", "protein"}

\* the key is absent from the record or null
IsMissing(n, key) == key \notin DOMAIN n \/ n[key] = None

\* the record with 0 written for every missing one of the keys
ZeroFilled(n, keys) ==
  [key \in DOMAIN n \cup keys |-> IF key \in keys /\ IsMissing(n, key) THEN Some(0) ELSE n[key]]

\* C11: when a nutrient the scorer needs is missing (absent or null) from the
\* nutrition record, scoring does not fail, the value is scored as 0, and the
\* per-nutrient breakdown of the same result notes the substitution: it is not
\* the breakdown of the record that holds a measured 0.
MissingValueNoted ==
  (FoodAnalysed /\ \E key \in RequiredNutrients(result.phan_tich_cho_benh) :
                     IsMissing(nutrition_arg[1], key)) =>
    LET d == result.phan_tich_cho_benh
        filled == ZeroFilled(nutrition_arg[1], RequiredNutrients(d))
    IN /\ result.diem_so = calculate_safety_score(filled, d)
       /\ result.danh_gia_tung_chat /= analyze_nutrients_for_disease(filled, d)

\* C12: every result of the advisor keeps the list bounds: at most 5 preferred
\* foods, at most 5 foods to avoid, at most 3 adjustment suggestions, for every
\* disease and every food.
ListBounds ==
  /\ (op = "run" /\ "nen_an_nhieu" \in DOMAIN result) =>
       /\ Len(result.nen_an_nhieu) <= 5
       /\ Len(result.han_che_nghiem_ngat) <= 5
       /\ "khuyen_khich" \in DOMAIN result => Len(result.khuyen_khich) <= 5
       /\ "tranh_hoan_toan" \in DOMAIN result => Len(result.tranh_hoan_toan) <= 5
  /\ FoodAnalysed => Len(result.cach_dieu_chinh) <= 3

\* the food name of the call is absent, empty or only blanks
BlankFoodName == food_name_arg = None \/ Strip(food_name_arg[1]) = <<>>

\* C13: for a recognised disease the result carries a score and a tier iff a
\* food name that is not blank was given: with the name absent, empty or only
\* blanks the advisor returns the general advice of the category (avoid list,
\* prefer list, calorie ceiling per meal, short principle) with no score and no
\* tier, and with a name that is not blank it never returns general advice.
\* Stated for the full advisor and for the simple one.
ScoreOnlyForNamedFood ==
  /\ (op = "run" /\ Strip(Lower(disease_arg)) \in DictKeys(DISEASE_MAP)) =>
       /\ BlankFoodName =>
            /\ {"han_che_nghiem_ngat", "nen_an_nhieu", "calo_toi_da_moi_bua", "loi_khuyen_ngan_gon"}
                 \subseteq DOMAIN result
            /\ DOMAIN result \cap ScoreKeys = {}
       /\ ~BlankFoodName => "nen_an_nhieu" \notin DOMAIN result
  /\ (op = "simple_run" /\ Strip(Lower(disease_arg)) \in DictKeys(SIMPLE_DISEASE_MAP)) =>
       /\ BlankFoodName =>
            /\ "tu_van_tong_quat" \in DOMAIN result
            /\ "phan_tich" \notin DOMAIN result
       /\ ~BlankFoodName => "tu_van_tong_quat" \notin DOMAIN result

\* the dimensions that add a delta to the score of a disease
ScoredDimensions(d) ==
  IF d = TieuDuong THEN {"carbs", "protein", "calories"}
  ELSE IF d = BeoPhi THEN {"calories", "fat"}
  ELSE {"calories", "protein", "category"}

\* C14: the per-nutrient breakdown of a food analysis has one entry for each
\* dimension that added a delta to the score (carbs, protein, calories for
\* "Tiểu đường"; calories, fat for "Béo phì"; calories, protein, category for
\* "Huyết áp cao"), each entry with the raw value, the threshold compared
\* against, a label and a rationale; and the label of a dimension is the one of
\* the bucket the scorer applied.
BreakdownPerDimension ==
  FoodAnalysed =>
    LET d == result.phan_tich_cho_benh
        n == nutrition_arg[1]
        breakdown == result.danh_gia_tung_chat
    IN /\ Cardinality(DOMAIN breakdown) = Cardinality(ScoredDimensions(d))
       /\ \A entry \in DOMAIN breakdown :
            {"gia_tri", "gioi_han", "trang_thai", "ly_do"} \subseteq DOMAIN breakdown[entry]
       /\ d = TieuDuong =>
            /\ breakdown.carbohydrate.trang_thai = "AN TOA-N" <=> Amount(n, "carbs") <= 30
            /\ breakdown.carbohydrate.trang_thai = "NGUY HIE^?M" <=> Amount(n, "carbs") > 50
       /\ d = BeoPhi =>
            /\ breakdown.calo.trang_thai = "I'T CALO" <=> Amount(n, "calories") <= 200
            /\ breakdown.calo.trang_thai = "NHIE^-U CALO" <=> Amount(n, "calories") > 400

\* the shapes of the advisor's results: the keys a caller can branch on
UnknownDiseaseShape == {"loi", "ban_nhap", "goi_y"}
MissingDataShape == {"loi", "goi_y"}
IsSuccessShape(keys) == "diem_so" \in keys \/ "benh" \in keys

\* a food analysis was asked for and the facts found hold a negative value
NegativeFacts ==
  /\ FoodAsked
  /\ nutrition_arg /= None
  /\ \E key \in {"calories", "protein", "carbs", "fat"} : Amount(nutrition_arg[1], key) < 0

\* C15: each error kind has a result of its own shape: the results for an
\* unknown disease, for missing nutrition data and for an invalid nutrition
\* value differ from each other and from the success results by their keys,
\* and a failure inside the advisor (a database lookup that fails included) is
\* reported neither as a bare error text nor as another kind.
ErrorKindsDistinct ==
  op = "run" =>
    /\ UnknownDiseaseShape /= MissingDataShape
    /\ ~IsSuccessShape(UnknownDiseaseShape) /\ ~IsSuccessShape(MissingDataShape)
    /\ Strip(Lower(disease_arg)) \notin DictKeys(DISEASE_MAP) => DOMAIN result = UnknownDiseaseShape
    /\ (FoodAsked /\ nutrition_arg = None) => DOMAIN result = MissingDataShape
    /\ NegativeFacts =>
         /\ DOMAIN result \notin {UnknownDiseaseShape, MissingDataShape}
         /\ ~IsSuccessShape(DOMAIN result)
    /\ (FoodAsked /\ nutrition_arg /= None /\ ~NegativeFacts) => IsSuccessShape(DOMAIN result)
    /\ (Strip(Lower(disease_arg)) \in DictKeys(DISEASE_MAP) /\ BlankFoodName) =>
         IsSuccessShape(DOMAIN result)

-----------------------------------------------------------------------------
(* Calls in progress *)

InProgress == {i \in CallIds : calls[i] /= None}
Logged(c, step) == \E k \in 1..Len(c.log) : c.log[k] = step
Before(c, first, second) ==
  \A k \in 1..Len(c.log) : c.log[k] = second => \E j \in 1..(k - 1) : c.log[j] = first
NamedFood(c) == c.food_name /= None /\ Strip(c.food_name[1]) /= <<>>

\* C16: within one advisor call the disease is normalised first; a call whose
\* normalisation failed performs no lookup (database or built-in table) and no
\* scoring; the score is computed only after the lookup, on facts resolved
\* for the named food; the result is composed last, and a result that carries
\* a score was composed after scoring.
StepOrder ==
  \A i \in InProgress :
    LET c == calls[i]
    IN /\ c.log /= <<>> => c.log[1] = "normalize"
       /\ (c.pc /= "normalize" /\ c.standardized_disease = None) =>
            /\ ~Logged(c, "lookup") /\ ~Logged(c, "fallback") /\ ~Logged(c, "score")
            /\ c.pc \in {"error", "done"}
       /\ Before(c, "normalize", "lookup")
       /\ Before(c, "lookup", "fallback")
       /\ Before(c, "lookup", "score")
       /\ Logged(c, "score") =>
            /\ NamedFood(c)
            /\ c.nutrition_info /= None
            /\ c.nutrition_info \in {db.answers[c.food_name[1]],
                                     get_fallback_nutrition(c.food_name[1])}
       /\ \A k \in 1..Len(c.log) : c.log[k] = "compose" => k = Len(c.log) /\ c.pc = "done"
       /\ (c.pc = "done" /\ "diem_so" \in DOMAIN c.result[1]) => Logged(c, "score")

StepOrderWitness ==
  \E i, j \in InProgress :
    /\ calls[i].pc = "done" /\ calls[i].standardized_disease = None /\ NamedFood(calls[i])
    /\ calls[i].log = <<"normalize", "compose">>
    /\ calls[j].pc = "done"
    /\ calls[j].log = <<"normalize", "lookup", "fallback", "score", "compose">>

\* C17: no advisor call changes the static configuration: the synonym table is
\* the one the class was defined with, every category has exactly one entry
\* in each rule table, and a call that has normalised its text holds what the
\* text normalises to on the original table, whatever calls ran before or
\* beside it.
ConfigurationReadOnly ==
  /\ disease_map = DISEASE_MAP
  /\ {DISEASE_MAP[k][2] : k \in 1..Len(DISEASE_MAP)} = Diseases
  /\ \A d1, d2 \in Diseases :
       /\ get_critical_nutrients(d1) /= <<>>
       /\ get_restricted_foods(d1) /= <<>>
       /\ get_recommended_foods(d1) /= <<>>
       /\ d1 /= d2 =>
            /\ get_critical_nutrients(d1) /= get_critical_nutrients(d2)
            /\ get_restricted_foods(d1) /= get_restricted_foods(d2)
            /\ get_recommended_foods(d1) /= get_recommended_foods(d2)
            /\ get_disease_advice(d1) /= get_disease_advice(d2)
  /\ \A i \in InProgress :
       calls[i].pc /= "normalize" =>
         calls[i].standardized_disease = normalize_disease_name(calls[i].disease)

ConfigurationReadOnlyWitness ==
  \E i, j \in InProgress :
    /\ i /= j
    /\ calls[i].pc = "done" /\ "ban_nhap" \in DOMAIN calls[i].result[1]
    /\ calls[j].disease = calls[i].disease
    /\ calls[j].pc = "error"

\* every result the call returns when it runs alone on the database db
SoloResults(c) ==
  LET standardized_disease == normalize_disease_name(c.disease)
  IN IF standardized_disease = None THEN {create_error_response(c.disease)}
     ELSE IF NamedFood(c) THEN
       {analyze_food_for_disease(standardized_disease[1], c.food_name[1], c.portion_size,
                                 db.answers[c.food_name[1]])}
     ELSE
       {get_general_health_advice(standardized_disease[1], disease_rules, suitable_foods) :
          disease_rules \in get_disease_rules(standardized_disease[1], db.conditions, FALSE),
          suitable_foods \in get_suitable_foods_for_disease(
                               standardized_disease[1], 5, db.foods, FALSE)}

\* C18: whatever the interleaving of the calls in progress, a call that has
\* returned holds a result it returns when run alone on the same database,
\* and the nutrition facts a call holds are the ones its own food name
\* resolves to, never those another call asked for.
CallsIndependent ==
  \A i \in InProgress :
    LET c == calls[i]
    IN /\ c.pc = "done" => c.result[1] \in SoloResults(c)
       /\ c.nutrition_info /= None =>
            c.nutrition_info \in {db.answers[c.food_name[1]],
                                  get_fallback_nutrition(c.food_name[1])}
       /\ (c.pc \in {"score", "compose"} /\ db.answers[c.food_name[1]] /= None) =>
            c.nutrition_info = db.answers[c.food_name[1]]

CallsIndependentWitness ==
  \E i, j \in InProgress :
    /\ calls[i].pc = "done" /\ "diem_so" \in DOMAIN calls[i].result[1]
    /\ calls[j].pc = "first"
    /\ calls[j].food_name /= calls[i].food_name
    /\ db.answers[calls[i].food_name[1]] /= None
    /\ db.answers[calls[j].food_name[1]] /= None
    /\ db.answers[calls[i].food_name[1]] /= db.answers[calls[j].food_name[1]]

-----------------------------------------------------------------------------
(* The agent and the rule merger *)

HasPart(text, message) == \E k \in 1..Len(text) : text[k].t = "s" /\ text[k].v = message

ChatRoute == should_use_tool(request[1])
ChatRouted == ChatRoute.tool_name /= None /\ ChatRoute.params /= None
ChatToolResult == call_tool(db.tool_map, ChatRoute.tool_name[1], ChatRoute.params[1], db.tool)

LookupFailed == ChatRouted /\ ChatRoute.tool_name[1] \notin db.tool_map
InvocationFailed == ChatRouted /\ ChatRoute.tool_name[1] \in db.tool_map /\ db.tool.raised
FormattingFailed == ChatRouted /\ format_attempt(ChatRoute.tool_name[1], ChatToolResult).raised
LlmFailed == ~ChatRouted /\ db.llm.raised

\* C19: chat always returns a text, and when the tool lookup, the tool
\* invocation, the result formatting or the LLM call failed, the text holds
\* the message of that failure.
ChatStringifiesFailure ==
  op = "chat" =>
    /\ result /= <<>>
    /\ LookupFailed => HasPart(result, ChatRoute.tool_name[1])
    /\ InvocationFailed => HasPart(result, db.tool.error)
    /\ FormattingFailed =>
         HasPart(result, format_attempt(ChatRoute.tool_name[1], ChatToolResult).error)
    /\ LlmFailed => HasPart(result, db.llm.error)

\* the rows merge_disease_rules collected, and the allowed foods all of those
\* that define some agree on
MatchedRules == {r \in db.rules : \E k \in 1..Len(result.source_rules) :
                                    result.source_rules[k] = r.disease_name}
DefiningRules == {r \in MatchedRules : TruthyList(r.allowed_foods)}
AllowedByAll ==
  {f \in UNION {Range(r.allowed_foods[1]) : r \in DefiningRules} :
     \A r \in DefiningRules : f \in Range(r.allowed_foods[1])}

\* C20: the merged allowed_foods is the set of foods allowed by every matched
\* rule that defines allowed foods, None when there is no such food; it
\* depends on which rules matched, not on the order of the names.
MergedAllowedIsIntersection ==
  (op = "merge_disease_rules" /\ result.merged_rule /= None) =>
    result.merged_rule[1].allowed_foods =
      IF AllowedByAll = {} THEN None ELSE Some(AllowedByAll)

\* the values a limit has in the matched rules that set it
LimitValues(key) == {r[key][1] : r \in {m \in MatchedRules : m[key] /= None}}
Smallest(values) == IF values = {} THEN None ELSE Some(CHOOSE v \in values : \A w \in values : v <= w)
Largest(values) == IF values = {} THEN None ELSE Some(CHOOSE v \in values : \A w \in values : v >= w)
MaxLimitKeys ==
  {"max_calories_per_meal", "max_carbs_per_meal", "max_fat_per_meal", "max_sodium_per_day"}

\* C21: each merged max_* limit is the smallest value of that limit in the
\* matched rules, the merged min_protein_per_meal the largest, a merged limit
\* is None only when no matched rule sets it, and the merged restricted_foods
\* is the union of the matched rules' restricted foods, whatever the order of
\* the names.
MergedLimitsStrictest ==
  (op = "merge_disease_rules" /\ result.merged_rule /= None) =>
    /\ \A key \in MaxLimitKeys : result.merged_rule[1][key] = Smallest(LimitValues(key))
    /\ result.merged_rule[1].min_protein_per_meal = Largest(LimitValues("min_protein_per_meal"))
    /\ result.merged_rule[1].restricted_foods =
         UNION {Range(r.restricted_foods[1]) : r \in {m \in MatchedRules : m.restricted_foods /= None}}

-----------------------------------------------------------------------------
(* The rule lookup *)

\* the MedicalCondition rows the query of get_disease_rules matches
MatchingConditions ==
  LET lowered == Lower(Strip(disease_arg))
      mapped == DictGet(rules_disease_map, lowered)
      standardized_name == IF mapped = None THEN Title(lowered) ELSE mapped[1]
  IN {mc \in db.conditions : IsSubstr(Lower(standardized_name), Lower(mc.name))}

\* C22: called with one of the three categories of the advisor, when no
\* MedicalCondition row matches or the query raises, get_disease_rules
\* returns the hard-coded rule of that category, never None.
RulesFallBack ==
  (op = "get_disease_rules" /\ ("rules" \in db.fails \/ MatchingConditions = {})) =>
    /\ result /= None
    /\ result = get_fallback_disease_rules(disease_arg)

-----------------------------------------------------------------------------
(* The simplified advisor against the full advisor *)

\* the keys of a built-in table
TableKeys(table) == {table[i][1] : i \in 1..Len(table)}

\* the tier of a score of the simplified advisor: its top score, its middle
\* scores (60 and 50), its bottom scores (30 and 20)
SimpleTier(score) ==
  IF score >= 80 THEN RatAnToan ELSE IF score >= 50 THEN ChapNhanDuoc ELSE KhongNenAn

\* C23: the simplified advisor answers as the full advisor does: a disease
\* text normalises to the same category, or to not-found, in both, and a food
\* that is a key of both built-in tables gets the same safety tier from both,
\* for each of the three diseases.
SimpleRefinesFull ==
  op = "simple_run" =>
    /\ simple_normalize_disease_name(disease_arg) = normalize_disease_name(disease_arg)
    /\ ( /\ "phan_tich" \in DOMAIN result
         /\ result.benh_ly \in Diseases
         /\ Lower(food_name_arg[1]) \in TableKeys(simple_nutrition_db) \cap TableKeys(food_db) )
       => SimpleTier(result.phan_tich.diem_so)
            = safety_level(calculate_safety_score(get_fallback_nutrition(food_name_arg[1])[1],
                                                  result.benh_ly))

-----------------------------------------------------------------------------
(* The agent's dispatch *)

\* the tool of the first pattern group, in the order health, recipe, vision,
\* that matches the query of the chat call
FirstGroup ==
  LET q == Lower(request[1])
  IN IF health_patterns(q) THEN Some("health_advisor_tool")
     ELSE IF recipe_patterns(q) THEN Some("recipe_generator_tool")
     ELSE IF vision_patterns(q) THEN Some("vision_tool")
     ELSE None

\* C24: a chat call dispatches by fixed priority, health before recipe before
\* vision, and (None, None) when no pattern matches; and in every chat call
\* exactly one call is made: the routed tool once, or the LLM once when no
\* tool was routed, never both and never neither.
DispatchOnce ==
  op = "chat" =>
    /\ ChatRoute.tool_name = FirstGroup
    /\ (FirstGroup = None) => (ChatRoute.params = None)
    /\ Len(db.invoked) = 1
    /\ db.invoked[1].callee = (IF FirstGroup = None THEN "llm" ELSE FirstGroup[1])

\* C25: at every construction site of the agent the tool a chat call is
\* routed to is a key of tool_map, so the call reaches the tool and the
\* answer is never the tool-not-found text.
ToolsRegistered ==
  (op = "chat" /\ db.tool_map \in ConstructionSites /\ ChatRouted) =>
    /\ ChatRoute.tool_name[1] \in db.tool_map
    /\ ~HasPart(result, "Kho^ng ti-m tha^'y tool ")

\* the words by which the health patterns recognise a disease
HealthDiseaseWords == diabetes_words \cup obesity_words \cup hypertension_words

\* C28: whenever a chat call invokes recipe_generator_tool, the disease
\* argument it passes is None, whatever the query says; a query that mentions
\* a disease the health patterns match is routed to the health advisor.
RecipeWithoutDisease ==
  op = "chat" =>
    /\ \A k \in 1..Len(db.invoked) :
         db.invoked[k].callee = "recipe_generator_tool" => db.invoked[k].kwargs.disease = None
    /\ Search(HealthDiseaseWords, Lower(request[1]))
         => ChatRoute.tool_name = Some("health_advisor_tool")

\* a recipe call was made for a query that speaks of blood pressure
RecipeWithoutDiseaseWitness ==
  /\ op = "chat"
  /\ Len(db.invoked) = 1
  /\ db.invoked[1].callee = "recipe_generator_tool"
  /\ IsSubstr(<<"h", "u", "y", "e^'", "t", " ", "a'", "p">>, Lower(request[1]))

-----------------------------------------------------------------------------
(* The advisor's built-in table *)

\* the places, in table order, of the entries of the built-in table whose key
\* contains the lower-cased food name or is contained in it
FallbackMatches ==
  {i \in 1..Len(food_db) :
     \/ IsSubstr(Lower(food_name_arg[1]), food_db[i][1])
     \/ IsSubstr(food_db[i][1], Lower(food_name_arg[1]))}

\* C26: _get_fallback_nutrition returns the facts of the first entry, in table
\* order, that matches the food name, and None exactly when no entry matches;
\* so "com", a part of several keys, always gets the facts of "com trang", the
\* earliest of them, and never those of a later entry.
FallbackFirstMatch ==
  op = "get_fallback_nutrition" =>
    /\ (result = None) <=> (FallbackMatches = {})
    /\ \A i \in FallbackMatches :
         (\A j \in FallbackMatches : i <= j) => result = Some(food_db[i][2])
    /\ Lower(food_name_arg[1]) = Com =>
         /\ result = Some(food_db[2][2])
         /\ result[1].calories = Some(130)

\* "com" was looked up: it matches "com trang" and "com tam" and got the facts
\* of the former
FallbackFirstMatchWitness ==
  /\ op = "get_fallback_nutrition"
  /\ food_name_arg = Some(Com)
  /\ Cardinality(FallbackMatches) = 2
  /\ result /= None
  /\ result[1].calories = Some(130)

-----------------------------------------------------------------------------
(* The clamp of the scorer *)

\* 50 plus the deltas the scorer applies to the record and disease of the
\* call, before the clamp
UnclampedSum ==
  LET n == nutrition_arg[1]
      calories == Amount(n, "calories")
      carbs == Amount(n, "carbs")
      fat == Amount(n, "fat")
      protein == Amount(n, "protein")
      lowSodium == "category" \in DOMAIN n /\ n["category"] \in {Some(Rau), Some(TraiCay), Some(Ca)}
  IN CASE disease_arg = TieuDuong ->
            50 + (CASE carbs <= 30 -> 20 [] carbs > 30 /\ carbs <= 50 -> 10 [] carbs > 50 -> -20)
               + (IF protein >= 15 THEN 15 ELSE 0)
               + (IF calories <= 400 THEN 15 ELSE 0)
       [] disease_arg = BeoPhi ->
            50 + (CASE calories <= 200 -> 25
                    [] calories > 200 /\ calories <= 400 -> 10
                    [] calories > 400 -> -25)
               + (CASE fat <= 10 -> 15 [] fat > 10 /\ fat <= 20 -> 5 [] fat > 20 -> -15)
       [] disease_arg = HuyetApCao ->
            50 + (IF calories <= 300 THEN 15 ELSE 0)
               + (IF protein >= 10 THEN 10 ELSE 0)
               + (IF lowSodium THEN 20 ELSE 0)
       [] OTHER -> 50

\* C27: the clamp of _calculate_safety_score never changes the value: for
\* every record and disease the sum before the clamp is in 0..100 ("Tieu
\* duong" in 30..100, "Beo phi" in 10..90, "Huyet ap cao" in 50..95, any other
\* disease exactly 50), and the returned score is 50 plus the applied deltas.
ClampIsIdentity ==
  op = "score" =>
    /\ result = UnclampedSum
    /\ UnclampedSum >= 0 /\ UnclampedSum <= 100
    /\ disease_arg = TieuDuong => result >= 30 /\ result <= 100
    /\ disease_arg = BeoPhi => result >= 10 /\ result <= 90
    /\ disease_arg = HuyetApCao => result >= 50 /\ result <= 95
    /\ disease_arg \notin Diseases => result = 50

\* the scorer gave "Tieu duong" every penalty and no bonus: the lowest sum
ClampIsIdentityWitness ==
  /\ op = "score"
  /\ disease_arg = TieuDuong
  /\ Amount(nutrition_arg[1], "carbs") > 50
  /\ result = 30

====
